---- MODULE Spec2Model ----
(***************************************************************************)
(* Roger: the metric acquisition and parsing engine of pkg/roger.          *)
(*                                                                         *)
(*   DnsmasqReader      src/pkg/roger/dnsmasq.go                           *)
(*   ProcNetDevReader   src/pkg/roger/netdev.go                            *)
(*   ProcNetStatReader  src/pkg/roger/netstat.go                           *)
(*                                                                         *)
(* A Go string is a sequence of one-character strings.  A uint64 is four   *)
(* 16-bit limbs, least significant first, so that the 64-bit width of the  *)
(* program's arithmetic is kept.                                           *)
(***************************************************************************)
EXTENDS Integers, Sequences, FiniteSets, TLC

Nil == "nil"

(***************************************************************************)
(* Sequences.                                                              *)
(***************************************************************************)
Range(s) == {s[i] : i \in 1..Len(s)}

IndexOf(s, c) == IF c \in Range(s) THEN CHOOSE i \in 1..Len(s) : s[i] = c ELSE 0

\* the element of a one-element set; { e : x \in {v} } binds x to the value of
\* v, which is then computed once however often e uses it
The(S) == CHOOSE x \in S : TRUE

RECURSIVE Concat(_)
Concat(ss) == IF ss = <<>> THEN <<>> ELSE Head(ss) \o Concat(Tail(ss))

RECURSIVE Join(_, _)
Join(ss, sep) ==
    IF ss = <<>> THEN <<>>
    ELSE IF Len(ss) = 1 THEN ss[1]
    ELSE ss[1] \o sep \o Join(Tail(ss), sep)

(***************************************************************************)
(* uint64 arithmetic.                                                      *)
(***************************************************************************)
LimbBase == 2 ^ 16

U64(d) == <<d, 0, 0, 0>>

Zero64 == U64(0)

Max64 == <<LimbBase - 1, LimbBase - 1, LimbBase - 1, LimbBase - 1>>

IsU64(n) == n \in [1..4 -> 0..(LimbBase - 1)]

Add64Saturating(a, b) ==
    LET t1 == a[1] + b[1]
        t2 == a[2] + b[2] + t1 \div LimbBase
        t3 == a[3] + b[3] + t2 \div LimbBase
        t4 == a[4] + b[4] + t3 \div LimbBase
    IN  [val |-> IF t4 \div LimbBase > 0 THEN Max64
                 ELSE <<t1 % LimbBase, t2 % LimbBase, t3 % LimbBase, t4 % LimbBase>>,
         carry |-> t4 \div LimbBase]

\* a + b on uint64: the wrapped sum and the carry out of bit 63
Add64(a, b) ==
    LET t1 == a[1] + b[1]
        t2 == a[2] + b[2] + t1 \div LimbBase
        t3 == a[3] + b[3] + t2 \div LimbBase
        t4 == a[4] + b[4] + t3 \div LimbBase
    IN  [val |-> <<t1 % LimbBase, t2 % LimbBase, t3 % LimbBase, t4 % LimbBase>>,
         carry |-> t4 \div LimbBase]

\* n * m on uint64 for a small m: the wrapped product and what overflowed
Mul64(n, m) ==
    LET t1 == n[1] * m
        t2 == n[2] * m + t1 \div LimbBase
        t3 == n[3] * m + t2 \div LimbBase
        t4 == n[4] * m + t3 \div LimbBase
    IN  [val |-> <<t1 % LimbBase, t2 % LimbBase, t3 % LimbBase, t4 % LimbBase>>,
         carry |-> t4 \div LimbBase]

(***************************************************************************)
(* Characters: strings.ToLower, strings.Fields, strings.Split,             *)
(* strings.TrimRight.                                                      *)
(***************************************************************************)
Digits == <<"0", "1", "2", "3", "4", "5", "6", "7", "8", "9">>

LowerCase == <<"a", "b", "c", "d", "e", "f", "g", "h", "i", "j", "k", "l", "m",
               "n", "o", "p", "q", "r", "s", "t", "u", "v", "w", "x", "y", "z">>

UpperCase == <<"A", "B", "C", "D", "E", "F", "G", "H", "I", "J", "K", "L", "M",
               "N", "O", "P", "Q", "R", "S", "T", "U", "V", "W", "X", "Y", "Z">>

lower(c) == IF c \in Range(UpperCase) THEN LowerCase[IndexOf(UpperCase, c)] ELSE c

ToLower(s) == [i \in 1..Len(s) |-> lower(s[i])]

IsSpace(c) == c \in {" ", "\t"}

\* strings.Split(s, sep) for a one-character sep: always at least one part
RECURSIVE splitFrom(_, _, _, _)
splitFrom(s, sep, i, cur) ==
    IF i > Len(s) THEN <<cur>>
    ELSE IF s[i] = sep THEN <<cur>> \o splitFrom(s, sep, i + 1, <<>>)
    ELSE splitFrom(s, sep, i + 1, Append(cur, s[i]))

Split(s, sep) == splitFrom(s, sep, 1, <<>>)

\* strings.Fields(s): the maximal runs of non-space characters
RECURSIVE fieldsFrom(_, _, _)
fieldsFrom(s, i, cur) ==
    IF i > Len(s) THEN (IF cur = <<>> THEN <<>> ELSE <<cur>>)
    ELSE IF IsSpace(s[i])
         THEN (IF cur = <<>> THEN <<>> ELSE <<cur>>) \o fieldsFrom(s, i + 1, <<>>)
         ELSE fieldsFrom(s, i + 1, Append(cur, s[i]))

Fields(s) == fieldsFrom(s, 1, <<>>)

TrimRightNothing(s, c) == s

\* strings.TrimRight(s, cutset) for a one-character cutset
RECURSIVE TrimRight(_, _)
TrimRight(s, c) ==
    IF s # <<>> /\ s[Len(s)] = c THEN TrimRight(SubSeq(s, 1, Len(s) - 1), c) ELSE s

(***************************************************************************)
(* strconv.ParseUint(s, base, 64) for base 10 and base 16.                 *)
(***************************************************************************)
ErrSyntax == "strconv.ErrSyntax"
ErrRange == "strconv.ErrRange"

\* the digit a byte stands for, or -1 when it is neither a digit nor a letter
digitVal(c) ==
    IF c \in Range(Digits) THEN IndexOf(Digits, c) - 1
    ELSE IF lower(c) \in Range(LowerCase) THEN IndexOf(LowerCase, lower(c)) + 9
    ELSE -1

\* one turn of the digit loop: n*base + d, or the error that ends the loop
digitStep(n, c, base) ==
    LET d == digitVal(c) IN
    IF d = -1 \/ d >= base THEN [val |-> Zero64, err |-> ErrSyntax]
    ELSE The({
         \* n >= cutoff, that is n*base overflows
         IF m.carry # 0 THEN [val |-> Max64, err |-> ErrRange]
         ELSE The({
              IF n1.carry # 0 THEN [val |-> Max64, err |-> ErrRange]
              ELSE [val |-> n1.val, err |-> Nil]
              : n1 \in {Add64(m.val, U64(d))} })
         : m \in {Mul64(n, base)} })

RECURSIVE parseDigits(_, _, _, _)
parseDigits(s, i, base, n) ==
    IF i > Len(s) THEN [val |-> n, err |-> Nil]
    ELSE The({ IF st.err # Nil THEN st ELSE parseDigits(s, i + 1, base, st.val)
               : st \in {digitStep(n, s[i], base)} })

ParseUint(s, base) ==
    IF s = <<>> THEN [val |-> Zero64, err |-> ErrSyntax]
    ELSE parseDigits(s, 1, base, Zero64)

(***************************************************************************)
(* float64(v) of a uint64 v, as Collect converts every value it emits:     *)
(* the nearest float64, ties to even, as mant * 2^exp with mant < 2^53.    *)
(***************************************************************************)
MantBits == 53

\* the number of bits of a natural number
RECURSIVE bitLen(_)
bitLen(v) == IF v = 0 THEN 0 ELSE 1 + bitLen(v \div 2)

\* n >> k on uint64, 0 < k < 16
shiftRight(n, k) ==
    LET limb(j) == IF j <= 4 THEN n[j] ELSE 0 IN
    [j \in 1..4 |-> (limb(j) \div (2 ^ k)) + (limb(j + 1) % (2 ^ k)) * (2 ^ (16 - k))]

\* v rounded to MantBits bits, v having top > MantBits bits
roundToMant(v, top) ==
    LET k == top - MantBits
        rest == v[1] % (2 ^ k)
        half == 2 ^ (k - 1)
    IN  The({ The({ IF 48 + bitLen(r[4]) > MantBits
                    THEN [mant |-> shiftRight(r, 1), exp |-> k + 1]
                    ELSE [mant |-> r, exp |-> k]
                    : r \in {IF rest > half \/ (rest = half /\ q[1] % 2 = 1)
                             THEN Add64(q, U64(1)).val ELSE q} })
              : q \in {shiftRight(v, k)} })

Float64(n) ==
    The({ IF 48 + bitLen(v[4]) <= MantBits THEN [mant |-> v, exp |-> 0]
          ELSE roundToMant(v, 48 + bitLen(v[4]))
          : v \in {n} })

(***************************************************************************)
(* prometheus descriptors and const metrics.                               *)
(***************************************************************************)
CounterValue == "CounterValue"
GaugeValue == "GaugeValue"

\* prometheus.NewDesc(fqName, help, variableLabels, nil); id tells one
\* allocation from another
NewDesc(fqName, help, variableLabels, id) ==
    [fqName |-> fqName, help |-> help, variableLabels |-> variableLabels, id |-> id]

\* prometheus.MustNewConstMetric: panics when the label values do not match
\* the descriptor's variable labels
MustNewConstMetric(desc, valueType, value, labelValues) ==
    IF Len(labelValues) # Len(desc.variableLabels) THEN [panic |-> TRUE]
    ELSE [panic |-> FALSE, desc |-> desc, valueType |-> valueType,
          value |-> value, labelValues |-> labelValues]

\* prometheus.BuildFQName(namespace, subsystem, name), name not empty
BuildFQName(namespace, subsystem, name) ==
    IF name = <<>> THEN <<>>
    ELSE IF namespace # <<>> /\ subsystem # <<>>
         THEN Join(<<namespace, subsystem, name>>, <<"_">>)
    ELSE IF namespace # <<>> THEN Join(<<namespace, name>>, <<"_">>)
    ELSE IF subsystem # <<>> THEN Join(<<subsystem, name>>, <<"_">>)
    ELSE name

(***************************************************************************)
(* DnsmasqReader (dnsmasq.go).                                             *)
(***************************************************************************)
ErrUpstream == "error calling upstream"
ErrNumAnswers == "unexpected number of answers"
ErrNumQuestions == "unexpected number of questions"
ErrParseAnswer == "error parsing answer"

TypeTXT == "TXT"
ClassCHAOS == "CHAOS"

question(name) == [Name |-> name, Qtype |-> TypeTXT, Qclass |-> ClassCHAOS]

\* the message ReadMetrics builds (the random Id left out)
QueryMsg ==
    [RecursionDesired |-> TRUE,
     Question |-> <<question("cachesize.bind."), question("insertions.bind."),
                    question("evictions.bind."), question("misses.bind."),
                    question("hits.bind."), question("auth.bind."),
                    question("servers.bind.")>>]

ScalarFieldsMixed == <<"cache size", "cache insertions", "cache evictions",
                       "cache hits", "cache misses", "authoritative">>

\* the text that follows %w in the six scalar parse errors, in answer order
ScalarFields == <<"cache size", "cache insertions", "cache evictions",
                  "cache misses", "cache hits", "authoritative">>

ServersField == "servers"

\* fmt.Errorf("%w ...: %s", sentinel, cause): errors.Is finds the sentinel,
\* the text names the field and carries the cause's text
Errorf(sentinel, field, cause) == [is |-> sentinel, field |-> field, cause |-> cause]

\* func results: a value, an error, or a run-time panic
Ok(v) == [kind |-> "ok", val |-> v]
Err(e) == [kind |-> "err", err |-> e]
Panic(why) == [kind |-> "panic", why |-> why]

parseIntRecordBase16(answer) ==
    IF answer.rrtype # TypeTXT THEN Panic("interface conversion")
    ELSE IF answer.Txt = <<>> THEN Panic("index out of range")
    ELSE The({ IF p.err # Nil THEN Err(p.err) ELSE Ok(p.val)
               : p \in {ParseUint(answer.Txt[1], 16)} })

parseIntRecord(answer) ==
    IF answer.rrtype # TypeTXT THEN Panic("interface conversion")
    ELSE IF answer.Txt = <<>> THEN Panic("index out of range")
    ELSE The({ IF p.err # Nil THEN Err(p.err) ELSE Ok(p.val)
               : p \in {ParseUint(answer.Txt[1], 10)} })

RECURSIVE parseServersSkipping(_, _, _)
parseServersSkipping(txt, i, out) ==
    IF i > Len(txt) THEN Ok(out)
    ELSE The({
         IF Len(statParts) # 3 THEN parseServersSkipping(txt, i + 1, out0)
         ELSE The({
              IF queriesSent.err # Nil THEN parseServersSkipping(txt, i + 1, out0)
              ELSE The({
                   IF queryErrors.err # Nil THEN parseServersSkipping(txt, i + 1, out0)
                   ELSE parseServersSkipping(txt, i + 1,
                            Append(out0, [Address |-> statParts[1],
                                         QueriesSent |-> queriesSent.val,
                                         QueryErrors |-> queryErrors.val]))
                   : queryErrors \in {ParseUint(statParts[3], 10)} })
              : queriesSent \in {ParseUint(statParts[2], 10)} })
         : statParts \in {Split(txt[i], " ")}, out0 \in {out} })

RECURSIVE parseServers(_, _, _)
parseServers(txt, i, out) ==
    IF i > Len(txt) THEN Ok(out)
    ELSE The({
         IF Len(statParts) # 3 THEN Err("expected 3 server fields")
         ELSE The({
              IF queriesSent.err # Nil THEN Err(queriesSent.err)
              ELSE The({
                   IF queryErrors.err # Nil THEN Err(queryErrors.err)
                   ELSE parseServers(txt, i + 1,
                            Append(out0, [Address |-> statParts[1],
                                         QueriesSent |-> queriesSent.val,
                                         QueryErrors |-> queryErrors.val]))
                   : queryErrors \in {ParseUint(statParts[3], 10)} })
              : queriesSent \in {ParseUint(statParts[2], 10)} })
         : statParts \in {Split(txt[i], " ")}, out0 \in {out} })

parseServersRecord(answer) ==
    IF answer.rrtype # TypeTXT THEN Panic("interface conversion")
    ELSE parseServers(answer.Txt, 1, <<>>)

RECURSIVE parseScalarsByName(_, _, _)
parseScalarsByName(answers, i, vals) ==
    IF i > Len(ScalarFields) THEN Ok(vals)
    ELSE The({
         IF r.kind = "panic" THEN r
         ELSE IF r.kind = "err" THEN Err(Errorf(ErrParseAnswer, ScalarFields[i], r.err))
         ELSE parseScalarsByName(answers, i + 1, Append(vals0, r.val))
         : r \in {parseIntRecord(
                      IF \E k \in DOMAIN answers : answers[k].Name = QueryMsg.Question[i].Name
                      THEN answers[CHOOSE k \in DOMAIN answers :
                                      answers[k].Name = QueryMsg.Question[i].Name]
                      ELSE answers[i])},
           vals0 \in {vals} })

\* answers 0..5 parsed in order, stopping at the first that fails
RECURSIVE parseScalars(_, _, _)
parseScalars(answers, i, vals) ==
    IF i > Len(ScalarFields) THEN Ok(vals)
    ELSE The({
         IF r.kind = "panic" THEN r
         ELSE IF r.kind = "err" THEN Err(Errorf(ErrParseAnswer, ScalarFields[i], r.err))
         ELSE parseScalars(answers, i + 1, Append(vals0, r.val))
         : r \in {parseIntRecord(answers[i])}, vals0 \in {vals} })

\* err != nil after the Exchange
exchangeFailedNilRes(x) == x.err # Nil /\ ~x.res.isNil

exchangeFailed(x) == x.err # Nil

\* len(res.Question) != len(m.Question)
numQuestionsMismatch(res) == Len(res.Question) # Len(QueryMsg.Question)

numAnswersFewer(res) == Len(res.Answer) < Len(res.Question)

\* len(res.Answer) != len(res.Question)
numAnswersMismatch(res) == Len(res.Answer) # Len(res.Question)

ReadMetricsAnswersFirst(x) ==
    IF exchangeFailed(x) THEN Err(Errorf(ErrUpstream, "", x.err))
    ELSE IF x.res.isNil THEN Panic("nil pointer dereference")
    ELSE IF numAnswersMismatch(x.res) THEN Err(Errorf(ErrNumAnswers, "", Nil))
    ELSE IF numQuestionsMismatch(x.res) THEN Err(Errorf(ErrNumQuestions, "", Nil))
    ELSE The({
         IF sc.kind # "ok" THEN sc
         ELSE The({
              IF servers.kind = "panic" THEN servers
              ELSE IF servers.kind = "err"
                   THEN Err(Errorf(ErrParseAnswer, ServersField, servers.err))
              ELSE Ok([CacheSize |-> sc.val[1], CacheInsertions |-> sc.val[2],
                       CacheEvictions |-> sc.val[3], CacheMisses |-> sc.val[4],
                       CacheHits |-> sc.val[5], Authoritative |-> sc.val[6],
                       Servers |-> servers.val])
              : servers \in {parseServersRecord(x.res.Answer[7])} })
         : sc \in {parseScalars(x.res.Answer, 1, <<>>)} })

\* ReadMetrics, given what client.Exchange(m, address) returned
ReadMetrics(x) ==
    IF exchangeFailed(x) THEN Err(Errorf(ErrUpstream, "", x.err))
    ELSE IF x.res.isNil THEN Panic("nil pointer dereference")
    ELSE IF numQuestionsMismatch(x.res) THEN Err(Errorf(ErrNumQuestions, "", Nil))
    ELSE IF numAnswersMismatch(x.res) THEN Err(Errorf(ErrNumAnswers, "", Nil))
    ELSE The({
         IF sc.kind # "ok" THEN sc
         ELSE The({
              IF servers.kind = "panic" THEN servers
              ELSE IF servers.kind = "err"
                   THEN Err(Errorf(ErrParseAnswer, ServersField, servers.err))
              ELSE Ok([CacheSize |-> sc.val[1], CacheInsertions |-> sc.val[2],
                       CacheEvictions |-> sc.val[3], CacheMisses |-> sc.val[4],
                       CacheHits |-> sc.val[5], Authoritative |-> sc.val[6],
                       Servers |-> servers.val])
              : servers \in {parseServersRecord(x.res.Answer[7])} })
         : sc \in {parseScalars(x.res.Answer, 1, <<>>)} })

\* newDescriptions(): eight descriptors, allocated once per reader
newDescriptions ==
    [dnsCacheSize |-> NewDesc("roger_dns_cache_size", "Size of the DNS cache", <<"server">>, 1),
     dnsCacheInsertions |-> NewDesc("roger_dns_cache_insertions", "Number of inserts in the DNS cache", <<"server">>, 2),
     dnsCacheEvictions |-> NewDesc("roger_dns_cache_evictions", "Number of evictions in the DNS cache", <<"server">>, 3),
     dnsCacheMisses |-> NewDesc("roger_dns_cache_misses", "Number of misses in the DNS cache", <<"server">>, 4),
     dnsCacheHits |-> NewDesc("roger_dns_cache_hits", "Number of hits in the DNS cache", <<"server">>, 5),
     dnsAuthoritative |-> NewDesc("roger_dns_authoritative", "Number of authoritative DNS queries answered", <<"server">>, 6),
     dnsUpstreamQueries |-> NewDesc("roger_dns_upstream_queries", "Number of queries sent to upstream servers", <<"server", "upstream">>, 7),
     dnsUpstreamErrors |-> NewDesc("roger_dns_upstream_errors", "Number of errors from upstream servers", <<"server", "upstream">>, 8)]

\* what Describe sends, in order
DescribeDescs(d) ==
    <<d.descriptions.dnsCacheSize, d.descriptions.dnsCacheInsertions,
      d.descriptions.dnsCacheEvictions, d.descriptions.dnsCacheMisses,
      d.descriptions.dnsCacheHits, d.descriptions.dnsAuthoritative,
      d.descriptions.dnsUpstreamQueries, d.descriptions.dnsUpstreamErrors>>

RECURSIVE serverMetricsErrorsFirst(_, _, _)
serverMetricsErrorsFirst(d, servers, i) ==
    IF i > Len(servers) THEN <<>>
    ELSE <<MustNewConstMetric(d.descriptions.dnsUpstreamErrors, CounterValue,
                              Float64(servers[i].QueryErrors), <<d.address, servers[i].Address>>),
           MustNewConstMetric(d.descriptions.dnsUpstreamQueries, CounterValue,
                              Float64(servers[i].QueriesSent), <<d.address, servers[i].Address>>)>>
         \o serverMetricsErrorsFirst(d, servers, i + 1)

\* the two metrics Collect sends for each server, in result order
RECURSIVE serverMetrics(_, _, _)
serverMetrics(d, servers, i) ==
    IF i > Len(servers) THEN <<>>
    ELSE <<MustNewConstMetric(d.descriptions.dnsUpstreamQueries, CounterValue,
                              Float64(servers[i].QueriesSent), <<d.address, servers[i].Address>>),
           MustNewConstMetric(d.descriptions.dnsUpstreamErrors, CounterValue,
                              Float64(servers[i].QueryErrors), <<d.address, servers[i].Address>>)>>
         \o serverMetrics(d, servers, i + 1)

\* what Collect sends after a successful read, in order
CollectMetrics(d, res) ==
    <<MustNewConstMetric(d.descriptions.dnsCacheSize, CounterValue, Float64(res.CacheSize), <<d.address>>),
      MustNewConstMetric(d.descriptions.dnsCacheInsertions, CounterValue, Float64(res.CacheInsertions), <<d.address>>),
      MustNewConstMetric(d.descriptions.dnsCacheEvictions, CounterValue, Float64(res.CacheEvictions), <<d.address>>),
      MustNewConstMetric(d.descriptions.dnsCacheMisses, CounterValue, Float64(res.CacheMisses), <<d.address>>),
      MustNewConstMetric(d.descriptions.dnsCacheHits, CounterValue, Float64(res.CacheHits), <<d.address>>),
      MustNewConstMetric(d.descriptions.dnsAuthoritative, CounterValue, Float64(res.Authoritative), <<d.address>>)>>
    \o serverMetrics(d, res.Servers, 1)

\* NewDnsmasqReader(client, address, logger)
NewDnsmasqReader(address) == [address |-> address, descriptions |-> newDescriptions]

(***************************************************************************)
(* Go maps, files and scanners.                                            *)
(***************************************************************************)
\* a map is a function from the keys it holds
EmptyMap == [k \in {} |-> Nil]

MapPut(m, k, v) == [x \in (DOMAIN m) \cup {k} |-> IF x = k THEN v ELSE m[x]]

\* the orders in which a range over a map may visit its keys: any
KeyOrders(m) ==
    {o \in [1..Cardinality(DOMAIN m) -> DOMAIN m] : \A i, j \in DOMAIN o : o[i] = o[j] => i = j}

\* a file: the error os.Open returns for it (Nil for none) and its lines
File(lines) == [err |-> Nil, lines |-> lines]

NoFile == [err |-> "no such file or directory", lines |-> <<>>]

\* scanner.Text() after the n-th scanner.Scan(): "" when there was no line
Text(lines, n) == IF n <= Len(lines) THEN lines[n] ELSE <<>>

Roger == <<"r", "o", "g", "e", "r">>

(***************************************************************************)
(* ProcNetStatReader (netstat.go).                                         *)
(***************************************************************************)
entriesHeader == <<"e", "n", "t", "r", "i", "e", "s">>

ValueDesc(name, val, promType) == [name |-> name, val |-> val, promType |-> promType]

\* NewProcNetStatReader(base, variant, logger); allocated counts the calls of
\* prometheus.NewDesc the reader has made
NewProcNetStatReader(base, variant) ==
    [kind |-> "netstat", subsystem |-> variant, path |-> <<base, "net", "stat", variant>>,
     lock |-> Nil, descriptions |-> EmptyMap, allocated |-> 0]

promTypeCounter(header) == CounterValue

\* the type given to a name when it is first seen
promTypeOf(header) == IF header = entriesHeader THEN GaugeValue ELSE CounterValue

summedAlways(header) == TRUE

\* header != entriesHeader: the value of a name seen before is added to
summedAcrossCPUs(header) == header # entriesHeader

RECURSIVE parseConnTrackValuesOrReturn(_, _, _, _, _)
parseConnTrackValuesOrReturn(p, parsed, headers, values, i) ==
    IF i > Len(headers) THEN Ok(parsed)
    ELSE IF i > Len(values) THEN Panic("index out of range")
    ELSE The({
         IF r.err # Nil THEN Ok(parsed0)
         ELSE parseConnTrackValuesOrReturn(p,
                  MapPut(parsed0, name,
                         IF name \notin DOMAIN parsed0
                         THEN ValueDesc(name, r.val, promTypeOf(header))
                         ELSE IF summedAcrossCPUs(header)
                              THEN [parsed0[name] EXCEPT !.val = Add64(@, r.val).val]
                              ELSE parsed0[name]),
                  headers, values, i + 1)
         : header \in {ToLower(headers[i])},
           name \in {BuildFQName(Roger, p.subsystem, ToLower(headers[i]))},
           r \in {ParseUint(values[i], 16)},
           parsed0 \in {parsed} })

\* the loop of parseConnTrackValues from index i (counted from 1)
RECURSIVE parseConnTrackValues(_, _, _, _, _)
parseConnTrackValues(p, parsed, headers, values, i) ==
    IF i > Len(headers) THEN Ok(parsed)
    ELSE IF i > Len(values) THEN Panic("index out of range")
    ELSE The({
         IF r.err # Nil THEN parseConnTrackValues(p, parsed0, headers, values, i + 1)
         ELSE parseConnTrackValues(p,
                  MapPut(parsed0, name,
                         IF name \notin DOMAIN parsed0
                         THEN ValueDesc(name, r.val, promTypeOf(header))
                         ELSE IF summedAcrossCPUs(header)
                              THEN [parsed0[name] EXCEPT !.val = Add64(@, r.val).val]
                              ELSE parsed0[name]),
                  headers, values, i + 1)
         : header \in {ToLower(headers[i])},
           name \in {BuildFQName(Roger, p.subsystem, ToLower(headers[i]))},
           r \in {ParseUint(values[i], 16)},
           parsed0 \in {parsed} })

\* for scanner.Scan() { ... } from line n on
RECURSIVE parseRows(_, _, _, _, _)
parseRows(p, parsed, headers, lines, n) ==
    IF n > Len(lines) THEN Ok(parsed)
    ELSE The({ IF r.kind = "panic" THEN r ELSE parseRows(p, r.val, headers, lines, n + 1)
               : r \in {parseConnTrackValues(p, parsed, headers, Fields(lines[n]), 1)} })

StatReadMetricsByHeader(p, f) ==
    IF f.err # Nil THEN {Err(f.err)}
    ELSE The({ IF r.kind = "panic" THEN {r}
               ELSE {Ok([Values |->
                            Concat([k \in DOMAIN hs |->
                                       IF BuildFQName(Roger, p.subsystem, ToLower(hs[k]))
                                              \in DOMAIN r.val
                                       THEN <<r.val[BuildFQName(Roger, p.subsystem,
                                                                ToLower(hs[k]))]>>
                                       ELSE <<>>])])}
               : r \in {parseRows(p, EmptyMap, Fields(Text(f.lines, 1)), f.lines, 2)},
                 hs \in {Fields(Text(f.lines, 1))} })

\* ReadMetrics on file f: every result it may return, the values of the map
\* being appended in the order the range visits them
StatReadMetrics(p, f) ==
    IF f.err # Nil THEN {Err(f.err)}
    ELSE The({ IF r.kind = "panic" THEN {r}
               ELSE {Ok([Values |-> [i \in DOMAIN o |-> r.val[o[i]]]]) : o \in KeyOrders(r.val)}
               : r \in {parseRows(p, EmptyMap, Fields(Text(f.lines, 1)), f.lines, 2)} })

\* what the loop of Collect visits: res.Values in order
StatItems(res) ==
    [i \in DOMAIN res.Values |->
        [name |-> res.Values[i].name, promType |-> res.Values[i].promType,
         val |-> res.Values[i].val, labelValues |-> <<>>]]

(***************************************************************************)
(* ProcNetDevReader (netdev.go).                                           *)
(***************************************************************************)
NetRx == <<"n", "e", "t", "_", "r", "x">>
NetTx == <<"n", "e", "t", "_", "t", "x">>

\* NewProcNetDevReader(base, logger)
NewProcNetDevReader(base) ==
    [kind |-> "netdev", subsystem |-> <<>>, path |-> <<base, "net", "dev">>,
     lock |-> Nil, descriptions |-> EmptyMap, allocated |-> 0]

RECURSIVE appendNetDevValuesOrBreak(_, _, _, _, _)
appendNetDevValuesOrBreak(metrics, headers, values, subsystem, i) ==
    IF i > Len(headers) THEN Ok(metrics)
    ELSE IF i > Len(values) THEN Panic("index out of range")
    ELSE The({ IF r.err # Nil THEN Ok(metrics0)
               ELSE appendNetDevValuesOrBreak(MapPut(metrics0, name, r.val),
                                              headers, values, subsystem, i + 1)
               : name \in {BuildFQName(Roger, subsystem, ToLower(headers[i]))},
                 r \in {ParseUint(values[i], 10)},
                 metrics0 \in {metrics} })

\* the loop of appendNetDevValues from index i (counted from 1)
RECURSIVE appendNetDevValues(_, _, _, _, _)
appendNetDevValues(metrics, headers, values, subsystem, i) ==
    IF i > Len(headers) THEN Ok(metrics)
    ELSE IF i > Len(values) THEN Panic("index out of range")
    ELSE The({ appendNetDevValues(IF r.err # Nil THEN metrics0 ELSE MapPut(metrics0, name, r.val),
                                  headers, values, subsystem, i + 1)
               : name \in {BuildFQName(Roger, subsystem, ToLower(headers[i]))},
                 r \in {ParseUint(values[i], 10)},
                 metrics0 \in {metrics} })

\* the body of the loop over the interface lines
netDevLine(rxHeaders, txHeaders, line) ==
    The({ IF parts = <<>> THEN Panic("index out of range")
          ELSE IF Len(rxHeaders) + 1 > Len(parts) THEN Panic("slice bounds out of range")
          ELSE The({ IF m.kind = "panic" THEN m
                     ELSE Ok([InterfaceName |-> TrimRight(parts[1], ":"),
                              MetricValues |-> m.val])
                     : m \in {appendNetDevValues(
                                 appendNetDevValues(EmptyMap, rxHeaders,
                                     SubSeq(parts, 2, Len(rxHeaders) + 1), NetRx, 1).val,
                                 txHeaders,
                                 SubSeq(parts, Len(rxHeaders) + 2, Len(parts)), NetTx, 1)} })
          : parts \in {Fields(line)} })

\* for scanner.Scan() { ... } from line n on
RECURSIVE netDevLines(_, _, _, _, _)
netDevLines(rxHeaders, txHeaders, lines, n, res) ==
    IF n > Len(lines) THEN Ok(res)
    ELSE The({ IF r.kind = "panic" THEN r
               ELSE netDevLines(rxHeaders, txHeaders, lines, n + 1, Append(res0, r.val))
               : r \in {netDevLine(rxHeaders, txHeaders, lines[n])}, res0 \in {res} })

DevReadMetricsThreeOrMore(p, f) ==
    IF f.err # Nil THEN Err(f.err)
    ELSE The({ IF Len(headerParts) < 3
               THEN Err([msg |-> "unexpected header line format", line |-> Text(f.lines, 2)])
               ELSE netDevLines(Fields(headerParts[2]), Fields(headerParts[3]), f.lines, 3, <<>>)
               : headerParts \in {Split(Text(f.lines, 2), "|")} })

DevReadMetricsOnce(p, f) ==
    IF f.err # Nil THEN Err(f.err)
    ELSE The({ IF Len(headerParts) # 3
               THEN Err([msg |-> "unexpected header line format", line |-> Text(f.lines, 2)])
               ELSE IF DOMAIN p.descriptions # {} THEN Ok(<<>>)
               ELSE netDevLines(Fields(headerParts[2]), Fields(headerParts[3]), f.lines, 3, <<>>)
               : headerParts \in {Split(Text(f.lines, 2), "|")} })

\* ReadMetrics on file f
DevReadMetrics(p, f) ==
    IF f.err # Nil THEN Err(f.err)
    ELSE The({ IF Len(headerParts) # 3
               THEN Err([msg |-> "unexpected header line format", line |-> Text(f.lines, 2)])
               ELSE netDevLines(Fields(headerParts[2]), Fields(headerParts[3]), f.lines, 3, <<>>)
               : headerParts \in {Split(Text(f.lines, 2), "|")} })

\* what the loops of Collect may visit: the results in order, the metrics of
\* each in any order
RECURSIVE DevItems(_)
DevItems(res) ==
    IF res = <<>> THEN {<<>>}
    ELSE { [i \in DOMAIN o |->
               [name |-> o[i], promType |-> CounterValue, val |-> Head(res).MetricValues[o[i]],
                labelValues |-> <<Head(res).InterfaceName>>]] \o rest
           : o \in KeyOrders(Head(res).MetricValues), rest \in DevItems(Tail(res)) }

(***************************************************************************)
(* Collect and Describe of the two proc readers.                           *)
(***************************************************************************)
\* every result ReadMetrics of reader p may return on file f
ProcReadResults(p, f) ==
    IF p.kind = "netdev" THEN {DevReadMetrics(p, f)} ELSE StatReadMetrics(p, f)

\* if err != nil { log; return }
returnsNever(ret) == FALSE

returnsEarly(ret) == ret.kind = "err"

\* the variable labels Collect gives a new descriptor
VariableLabels(p) == IF p.kind = "netdev" THEN <<"interface">> ELSE <<>>

\* the sequences of (name, type, value, label values) Collect may go through
CollectItems(p, ret) ==
    IF ret.kind # "ok" THEN {<<>>}
    ELSE IF p.kind = "netdev" THEN DevItems(ret.val)
    ELSE {StatItems(ret.val)}

RECURSIVE collectLoopAlwaysNew(_, _, _)
collectLoopAlwaysNew(p, items, st) ==
    IF items = <<>> THEN st
    ELSE The({
         The({ IF m.panic THEN [st1 EXCEPT !.panicked = TRUE]
               ELSE collectLoopAlwaysNew(p, Tail(items), [st1 EXCEPT !.sent = Append(@, m)])
               : m \in {MustNewConstMetric(st1.descriptions[it.name], it.promType,
                                           Float64(it.val), it.labelValues)} })
         : it \in {Head(items)},
           st1 \in {[st EXCEPT !.descriptions =
                                  MapPut(@, Head(items).name,
                                         NewDesc(Head(items).name,
                                                 <<"generated from %s", p.path>>,
                                                 VariableLabels(p), st.allocated + 1)),
                               !.allocated = @ + 1]} })

\* the loop of Collect under the lock: look the descriptor up, create and
\* store it when it is missing, send the metric
RECURSIVE collectLoop(_, _, _)
collectLoop(p, items, st) ==
    IF items = <<>> THEN st
    ELSE The({
         The({ IF m.panic THEN [st1 EXCEPT !.panicked = TRUE]
               ELSE collectLoop(p, Tail(items), [st1 EXCEPT !.sent = Append(@, m)])
               : m \in {MustNewConstMetric(st1.descriptions[it.name], it.promType,
                                           Float64(it.val), it.labelValues)} })
         : it \in {Head(items)},
           st1 \in {IF Head(items).name \in DOMAIN st.descriptions THEN st
                    ELSE [st EXCEPT !.descriptions =
                                       MapPut(@, Head(items).name,
                                              NewDesc(Head(items).name,
                                                      <<"generated from %s", p.path>>,
                                                      VariableLabels(p), st.allocated + 1)),
                                    !.allocated = @ + 1]} })

DescribeCached(p) == [i \in DOMAIN (CHOOSE o \in KeyOrders(p.descriptions) : TRUE) |->
                         p.descriptions[(CHOOSE o \in KeyOrders(p.descriptions) : TRUE)[i]]]

\* Describe of an unchecked collector sends nothing
DescribeUnchecked(p) == <<>>

(***************************************************************************)
(* What the transport can return to one Exchange.                          *)
(***************************************************************************)
\* how many answers of one response may differ from the well-formed ones
MaxOdd == 2

\* decimal digits of a small natural number
RECURSIVE Dec(_)
Dec(n) == IF n < 10 THEN <<Digits[n + 1]>> ELSE Dec(n \div 10) \o <<Digits[(n % 10) + 1]>>

\* "18446744073709551615", 2^64 - 1
MaxDec == <<"1", "8", "4", "4", "6", "7", "4", "4", "0", "7",
            "3", "7", "0", "9", "5", "5", "1", "6", "1", "5">>

\* "18446744073709551616", 2^64
OverDec == SubSeq(MaxDec, 1, 19) \o <<"6">>

TXT(name, txt) == [rrtype |-> TypeTXT, Name |-> name, Txt |-> txt]

\* a record of another type, such as *dns.A
OtherRR(name) == [rrtype |-> "A", Name |-> name, Txt |-> <<>>]

Msg(q, a) == [isNil |-> FALSE, Question |-> q, Answer |-> a]

NilMsg == [isNil |-> TRUE, Question |-> <<>>, Answer |-> <<>>]

Server(addr, sent, errs) == Join(<<addr, sent, errs>>, <<" ">>)

Addr1 == <<"1", ".", "1", ".", "1", ".", "1", ":", "5", "3">>
Addr2 == <<"8", ".", "8", ".", "8", ".", "8", ":", "5", "3">>

\* the answers of the daemon in the tests' success case
GoodAnswers ==
    [i \in 1..7 |->
        IF i <= 6 THEN TXT(QueryMsg.Question[i].Name, <<Dec(999 + i)>>)
        ELSE TXT(QueryMsg.Question[7].Name,
                 <<Server(Addr1, Dec(1000), Dec(500)), Server(Addr2, Dec(1001), Dec(501))>>)]

\* other payloads of a scalar answer
ScalarTxts ==
    { <<<<"f", "a", "i", "l">>>>,
      <<>>,
      <<MaxDec>>,
      <<OverDec>>,
      <<<<"0", "0", "7">>, <<"x">>>>,
      <<<<>>>> }

\* other payloads of the server-list answer
ServerTxts ==
    { <<>>,
      <<Server(Addr2, Dec(7), Dec(0))>>,
      <<<<"f", "a", "i", "l">>>>,
      <<Server(Addr1, Dec(1), Dec(2)), <<"a", " ", "1">>>>,
      <<<<"a", " ", " ", "1", " ", "2">>>>,
      <<<<"a", " ", "x", " ", "2">>, Server(Addr1, Dec(1), Dec(2))>>,
      <<<<"a", " ", "1", " ", "y">>>>,
      <<<<" ", "1", " ", "2">>>>,
      <<Server(Addr1, MaxDec, OverDec)>> }

\* TXT records with these payloads, and a record of another type
OddAnswers(i) ==
    {TXT(QueryMsg.Question[i].Name, t) : t \in (IF i <= 6 THEN ScalarTxts ELSE ServerTxts)}
    \cup {OtherRR(QueryMsg.Question[i].Name)}

\* the odd answers that are combined with each other
CoreOddAnswers(i) ==
    IF i <= 6
    THEN {TXT(QueryMsg.Question[i].Name, t) : t \in {<<<<"f", "a", "i", "l">>>>, <<>>, <<MaxDec>>}}
    ELSE {TXT(QueryMsg.Question[i].Name, <<<<"f", "a", "i", "l">>>>),
          TXT(QueryMsg.Question[i].Name, <<Server(Addr2, Dec(7), Dec(0))>>),
          OtherRR(QueryMsg.Question[i].Name)}

\* the seven-answer lists in which at most n answers are odd ones of alts
AnswerListsWithin(alts(_), n) ==
    LET all == UNION {alts(i) : i \in 1..7} IN
    UNION { { [i \in 1..7 |-> IF i \in S THEN f[i] ELSE GoodAnswers[i]] :
                f \in {g \in [S -> all] : \A i \in S : g[i] \in alts(i)} } :
            S \in {T \in SUBSET (1..7) : Cardinality(T) <= n} }

\* every odd answer alone, and up to n of the core ones together
AnswerLists(n) == AnswerListsWithin(OddAnswers, 1) \cup AnswerListsWithin(CoreOddAnswers, n)

\* question sections a daemon may echo: the seven sent, fewer, more, none,
\* and seven others
QuestionVariants ==
    { QueryMsg.Question,
      SubSeq(QueryMsg.Question, 1, 6),
      Append(QueryMsg.Question, question("extra.bind.")),
      <<>>,
      [i \in 1..7 |-> question("other.bind.")] }

\* answer sections with fewer or more answers than were asked for
AnswerVariants(a) == {SubSeq(a, 1, 6), Append(a, GoodAnswers[1]), <<>>, SubSeq(a, 1, 1)}

\* the answers of the success case with two of the scalar answers, names and
\* all, in each other's place
SwappedAnswers ==
    { [k \in 1..7 |-> IF k = i THEN GoodAnswers[j]
                      ELSE IF k = j THEN GoodAnswers[i]
                      ELSE GoodAnswers[k]] : i, j \in 1..6 }

TransportErrors == {"dns client error", "i/o timeout"}

\* what an Exchange may return, with up to n odd answers together
Exchanges(n) ==
    {[err |-> e, res |-> NilMsg] : e \in TransportErrors}
    \cup {[err |-> Nil, res |-> Msg(QueryMsg.Question, a)] : a \in AnswerLists(n)}
    \cup {[err |-> Nil, res |-> Msg(QueryMsg.Question, a)] : a \in SwappedAnswers}
    \cup {[err |-> Nil, res |-> Msg(q, a)] :
            q \in QuestionVariants,
            a \in AnswerListsWithin(OddAnswers, 1)
                  \cup UNION {AnswerVariants(b) : b \in AnswerListsWithin(OddAnswers, 1)}}

(***************************************************************************)
(* What the files under the proc base directory can hold.                  *)
(***************************************************************************)
\* how many CPU rows a /proc/net/stat file has at most
MaxRows == 2

\* a line of tokens separated by single spaces
Line(tokens) == Join(tokens, <<" ">>)

found == <<"f", "o", "u", "n", "d">>

\* header lines: the usual one, upper case and another order, a name twice,
\* entries alone, no name at all
StatHeaders ==
    { <<entriesHeader, found>>,
      <<<<"F", "o", "u", "n", "d">>, <<"E", "N", "T", "R", "I", "E", "S">>>>,
      <<found, found>>,
      <<entriesHeader>>,
      <<>> }

\* "ffffffffffffffff", 2^64 - 1
MaxHex == [i \in 1..16 |-> "f"]

\* "10000000000000000", 2^64
OverHex == <<"1">> \o [i \in 1..16 |-> "0"]

Hex42 == <<"0", "0", "0", "0", "0", "0", "4", "2">>

HexTokens == {<<"3">>, MaxHex}

\* the rows under a header of n names: n hexadecimal tokens each, and rows
\* that are blank, shorter, longer, not hexadecimal or out of range
StatRows(n) ==
    [1..n -> HexTokens]
    \cup { [i \in 1..n |-> IF i = 1 THEN Hex42 ELSE <<"3">>],
           [i \in 1..n |-> IF i = 1 THEN Hex42 ELSE <<"5">>],
           <<>>,
           [i \in 1..(n - 1) |-> <<"3">>],
           [i \in 1..(n + 1) |-> <<"5">>],
           [i \in 1..n |-> IF i = 1 THEN <<"z", "z">> ELSE <<"5">>],
           [i \in 1..n |-> IF i = n THEN OverHex ELSE <<"3">>] }

\* no file, and the files of a header line and up to n rows
StatFiles(n) ==
    {NoFile}
    \cup UNION { { File(<<Line(h)>> \o [i \in DOMAIN rows |-> Line(rows[i])]) :
                     rows \in UNION {[1..k -> StatRows(Len(h))] : k \in 0..n} } :
                 h \in StatHeaders }

\* the file of the spec's example: entries 42 and 42, found 3 and 5
ConnTrackFile ==
    File(<<Line(<<entriesHeader, found>>), Line(<<Hex42, <<"3">>>>), Line(<<Hex42, <<"5">>>>)>>)

\* conntrack files of a scrape: the good one, none, a short row, a blank
\* row, one more field
ConnTrackFiles ==
    { ConnTrackFile,
      NoFile,
      File(<<Line(<<entriesHeader, found>>), Line(<<Hex42>>)>>),
      File(<<Line(<<entriesHeader, found>>), <<>>, Line(<<Hex42, <<"5">>>>)>>),
      File(<<Line(<<entriesHeader, found, <<"i", "n", "v", "a", "l", "i", "d">>>>),
             Line(<<Hex42, <<"3">>, <<"1">>>>)>>) }

ArpCacheFile == File(<<Line(<<entriesHeader>>), Line(<<<<"1">>>>)>>)

ArpCacheFiles == {ArpCacheFile, NoFile}

bytes == <<"b", "y", "t", "e", "s">>

NetDevHeader1 == <<"I", "n", "t", "e", "r", "-", "|", " ", "R", "x", " ", "|", " ", "T", "x">>

\* " face |bytes|bytes"
NetDevHeader2 == <<" ", "f", "a", "c", "e", " ", "|">> \o bytes \o <<"|">> \o bytes

Eth0 == <<"e", "t", "h", "0", ":">>

packets == <<"p", "a", "c", "k", "e", "t", "s">>

Errs == <<"E", "r", "r", "s">>

Lo == <<"l", "o", ":">>

\* line 2 of the file: a label, the receive names, the transmit names
DevHeaderLine(rx, tx) == <<" ", "f", "a", "c", "e", " ", "|">> \o Line(rx) \o <<"|">> \o Line(tx)

NetDevFile == File(<<NetDevHeader1, NetDevHeader2, Line(<<Eth0, Dec(10), Dec(20)>>)>>)

\* net/dev files of a scrape: the good one, none, no second header line, an
\* interface line without values, a blank interface line
NetDevFiles ==
    { NetDevFile,
      NoFile,
      File(<<NetDevHeader1>>),
      File(<<NetDevHeader1, NetDevHeader2, Eth0>>),
      File(<<NetDevHeader1, NetDevHeader2, <<>>, Line(<<Eth0, Dec(10), Dec(20)>>)>>) }

\* receive and transmit names: one each, two and one in upper case, no
\* receive names
GoodDevHeaders ==
    { <<<<bytes>>, <<bytes>>>>,
      <<<<bytes, packets>>, <<Errs>>>>,
      <<<<>>, <<bytes>>>> }

\* second lines of two segments, of four, and a blank one
BadDevHeaderLines ==
    { <<"f", "a", "c", "e", "|">> \o bytes,
      DevHeaderLine(<<bytes>>, <<bytes>>) \o <<"|">> \o bytes,
      <<>> }

DecTokens == {Dec(10), MaxDec}

\* the interface lines under nv names: the interface and nv decimal tokens,
\* and lines with a token that is no number or out of range, blank, shorter
\* and longer lines
DevRows(nv) ==
    { <<Eth0>> \o v : v \in [1..nv -> DecTokens] }
    \cup { <<Lo>> \o [i \in 1..nv |-> <<"0", "0", "7">>],
           <<Eth0>> \o [i \in 1..nv |-> IF i = 1 THEN <<"f", "f">> ELSE Dec(20)],
           <<Eth0>> \o [i \in 1..nv |-> IF i = nv THEN OverDec ELSE Dec(20)],
           <<>>,
           <<Eth0>> \o [i \in 1..(nv - 1) |-> Dec(20)],
           <<Eth0>> \o [i \in 1..(nv + 1) |-> Dec(20)] }

\* no file, an empty file, a file of one line, the files of two header lines
\* and up to n interface lines, files whose second line has not three
\* segments, and a file with a receive name twice
DevFiles(n) ==
    {NoFile, File(<<>>), File(<<NetDevHeader1>>)}
    \cup UNION { { File(<<NetDevHeader1, DevHeaderLine(h[1], h[2])>>
                         \o [i \in DOMAIN rows |-> Line(rows[i])]) :
                     rows \in UNION {[1..k -> DevRows(Len(h[1]) + Len(h[2]))] : k \in 0..n} } :
                 h \in GoodDevHeaders }
    \cup { File(<<NetDevHeader1, b>> \o rows) :
             b \in BadDevHeaderLines,
             rows \in { <<>>, <<Line(<<Eth0, Dec(10), Dec(20)>>)>>, <<<<>>>>, <<Eth0>> } }
    \cup { File(<<NetDevHeader1, DevHeaderLine(<<bytes, <<"B", "y", "t", "e", "s">>>>, <<bytes>>),
                  Line(<<Eth0, Dec(10), Dec(20), Dec(30)>>)>>) }

(***************************************************************************)
(* State.                                                                  *)
(***************************************************************************)
VARIABLES
    wire,       \* what the daemon's transport returns to an Exchange
    dns,        \* the DnsmasqReader: address and descriptions
    dnsCall,    \* the last call on it: what the transport returned, what the
                \* call returned, what it sent on its channel, what it logged
    crashed,    \* an unrecovered panic ended the process
    procfs,     \* the file at each path under the proc base directory
    proc,       \* the proc readers: path, lock, descriptions
    call,       \* for each scraping goroutine, its last call on a proc reader
                \* and where it is in it
    ncalls      \* how many Collect and Describe calls were made

dnsVars == <<wire, dns, dnsCall>>

procVars == <<procfs, proc, call, ncalls>>

vars == <<wire, dns, dnsCall, crashed, procfs, proc, call, ncalls>>

\* how many Collect and Describe calls a behaviour has
MaxCalls == 2

DnsAddress == "127.0.0.1:53"

NoCall == [op |-> "none", x |-> [err |-> Nil, res |-> NilMsg], ret |-> Ok(Nil),
           sent |-> <<>>, logged |-> 0, exchanges |-> <<>>]

DnsInit ==
    /\ dns = NewDnsmasqReader(DnsAddress)
    /\ dnsCall = NoCall

ProcBase == "/proc"

NfConntrack == <<"n", "f", "_", "c", "o", "n", "n", "t", "r", "a", "c", "k">>

ArpCache == <<"a", "r", "p", "_", "c", "a", "c", "h", "e">>

\* the proc readers main registers
ProcReaders == {"netDevReader", "connTrackReader", "arpCacheReader"}

NewProcReaders ==
    [r \in ProcReaders |->
        CASE r = "netDevReader" -> NewProcNetDevReader(ProcBase)
          [] r = "connTrackReader" -> NewProcNetStatReader(ProcBase, NfConntrack)
          [] r = "arpCacheReader" -> NewProcNetStatReader(ProcBase, ArpCache)]

\* the goroutines that scrape
Callers == {"scrape1", "scrape2"}

\* the result of desc, ok := p.descriptions[name] before any lookup
NoLookup == [ok |-> FALSE, desc |-> NewDesc(<<>>, <<>>, <<>>, 0)]

\* cached: the names that had a descriptor when the call began; todo: what
\* the loop of Collect has still to visit; lookup: its last lookup
IdleCall == [seq |-> 0, reader |-> Nil, op |-> "none", pc |-> "idle", x |-> NoFile,
             ret |-> Ok(Nil), sent |-> <<>>, logged |-> 0, acquired |-> FALSE,
             cached |-> {}, todo |-> <<>>, lookup |-> NoLookup]

\* the files a path can hold
ProcFiles(r) ==
    IF r = "netDevReader" THEN NetDevFiles
    ELSE IF r = "connTrackReader" THEN ConnTrackFiles
    ELSE ArpCacheFiles

GoodFiles ==
    [r \in ProcReaders |->
        CASE r = "netDevReader" -> NetDevFile
          [] r = "connTrackReader" -> ConnTrackFile
          [] r = "arpCacheReader" -> ArpCacheFile]

ProcInit ==
    /\ proc = NewProcReaders
    /\ call = [c \in Callers |-> IdleCall]
    /\ ncalls = 0

\* the metrics sent before the first one whose construction panics
RECURSIVE sentBeforePanic(_)
sentBeforePanic(ms) ==
    IF ms = <<>> \/ Head(ms).panic THEN <<>> ELSE <<Head(ms)>> \o sentBeforePanic(Tail(ms))

ExchangeCallsRetry(d, x) ==
    IF exchangeFailed(x)
    THEN <<[m |-> QueryMsg, address |-> d.address], [m |-> QueryMsg, address |-> d.address]>>
    ELSE <<[m |-> QueryMsg, address |-> d.address]>>

\* the calls d.client.Exchange(m, d.address) that one ReadMetrics makes, x being
\* what the first of them returned
ExchangeCalls(d, x) == <<[m |-> QueryMsg, address |-> d.address]>>

\* a direct call of ReadMetrics
DnsReadMetrics ==
    /\ ~crashed
    /\ \E ret \in {ReadMetrics(wire)} :
          /\ dnsCall' = [op |-> "ReadMetrics", x |-> wire, ret |-> ret, sent |-> <<>>,
                         logged |-> 0, exchanges |-> ExchangeCalls(dns, wire)]
          /\ crashed' = (ret.kind = "panic")
    /\ UNCHANGED <<wire, dns, procVars>>

\* Collect: the read, then either one log line or the metrics
DnsCollect ==
    /\ ~crashed
    /\ ncalls < MaxCalls
    /\ \E ret \in {ReadMetrics(wire)} :
       \E ms \in {IF ret.kind = "ok" THEN CollectMetrics(dns, ret.val) ELSE <<>>} :
       \E sent \in {sentBeforePanic(ms)} :
          /\ dnsCall' = [op |-> "Collect", x |-> wire, ret |-> ret, sent |-> sent,
                         logged |-> IF ret.kind = "err" THEN 1 ELSE 0,
                         exchanges |-> ExchangeCalls(dns, wire)]
          /\ crashed' = (ret.kind = "panic" \/ Len(sent) < Len(ms))
    /\ ncalls' = ncalls + 1
    /\ UNCHANGED <<wire, dns, procfs, proc, call>>

DnsDescribe ==
    /\ ~crashed
    /\ ncalls < MaxCalls
    /\ dnsCall' = [op |-> "Describe", x |-> NoCall.x, ret |-> Ok(Nil),
                   sent |-> DescribeDescs(dns), logged |-> 0, exchanges |-> <<>>]
    /\ ncalls' = ncalls + 1
    /\ UNCHANGED <<wire, dns, crashed, procfs, proc, call>>

DnsNext ==
    \/ DnsReadMetrics
    \/ DnsCollect
    \/ DnsDescribe

InitDns ==
    /\ wire \in Exchanges(MaxOdd)
    /\ DnsInit
    /\ crashed = FALSE
    /\ procfs = GoodFiles
    /\ ProcInit

SpecDns == InitDns /\ [][DnsNext]_vars

(***************************************************************************)
(* Calls on the proc readers.  The file at the path of reader r is         *)
(* procfs[r].                                                              *)
(***************************************************************************)
\* a direct call of ReadMetrics by goroutine c on reader r
ProcReadMetrics(c, r) ==
    /\ ~crashed
    /\ call[c].pc = "idle"
    /\ \E ret \in ProcReadResults(proc[r], procfs[r]) :
          /\ call' = [call EXCEPT ![c] =
                         [seq |-> ncalls, reader |-> r, op |-> "ReadMetrics",
                          pc |-> IF ret.kind = "panic" THEN "panic" ELSE "idle",
                          x |-> procfs[r], ret |-> ret, sent |-> <<>>, logged |-> 0,
                          acquired |-> FALSE, cached |-> DOMAIN proc[r].descriptions,
                          todo |-> <<>>, lookup |-> NoLookup]]
          /\ crashed' = (ret.kind = "panic")
    /\ UNCHANGED <<dnsVars, procfs, proc, ncalls>>

\* Collect up to p.lock.Lock(): the read without the lock; an error is
\* logged and ends the call
ProcCollectRead(c, r) ==
    /\ ~crashed
    /\ ncalls < MaxCalls
    /\ call[c].pc = "idle"
    /\ \E ret \in ProcReadResults(proc[r], procfs[r]) :
          /\ call' = [call EXCEPT ![c] =
                         [seq |-> ncalls + 1, reader |-> r, op |-> "Collect",
                          pc |-> IF ret.kind = "panic" THEN "panic"
                                 ELSE IF returnsEarly(ret) THEN "idle"
                                 ELSE "lock",
                          x |-> procfs[r], ret |-> ret, sent |-> <<>>,
                          logged |-> IF ret.kind = "err" THEN 1 ELSE 0,
                          acquired |-> FALSE, cached |-> DOMAIN proc[r].descriptions,
                          todo |-> <<>>, lookup |-> NoLookup]]
          /\ crashed' = (ret.kind = "panic")
    /\ ncalls' = ncalls + 1
    /\ UNCHANGED <<dnsVars, procfs, proc>>

ProcCollectLockFree(c) ==
    /\ ~crashed
    /\ call[c].pc = "lock"
    /\ proc' = [proc EXCEPT ![call[c].reader].lock = c]
    /\ call' = [call EXCEPT ![c].pc = "emit", ![c].acquired = TRUE]
    /\ UNCHANGED <<dnsVars, crashed, procfs, ncalls>>

\* p.lock.Lock() returns
ProcCollectLock(c) ==
    /\ ~crashed
    /\ call[c].pc = "lock"
    /\ proc[call[c].reader].lock = Nil
    /\ proc' = [proc EXCEPT ![call[c].reader].lock = c]
    /\ call' = [call EXCEPT ![c].pc = "emit", ![c].acquired = TRUE]
    /\ UNCHANGED <<dnsVars, crashed, procfs, ncalls>>

\* the loop of Collect, then the deferred p.lock.Unlock() and the return
ProcCollectEmit(c) ==
    /\ ~crashed
    /\ call[c].pc = "emit"
    /\ \E r \in {call[c].reader} :
       \E items \in CollectItems(proc[r], call[c].ret) :
       \E st \in {collectLoop(proc[r], items,
                              [descriptions |-> proc[r].descriptions,
                               allocated |-> proc[r].allocated,
                               sent |-> <<>>, panicked |-> FALSE])} :
          /\ proc' = [proc EXCEPT ![r].descriptions = st.descriptions,
                                  ![r].allocated = st.allocated,
                                  ![r].lock = Nil]
          /\ call' = [call EXCEPT ![c].pc = IF st.panicked THEN "panic" ELSE "idle",
                                  ![c].sent = st.sent]
          /\ crashed' = st.panicked
    /\ UNCHANGED <<dnsVars, procfs, ncalls>>

\* Describe by goroutine c on reader r
ProcDescribe(c, r) ==
    /\ ~crashed
    /\ ncalls < MaxCalls
    /\ call[c].pc = "idle"
    /\ call' = [call EXCEPT ![c] =
                   [seq |-> ncalls + 1, reader |-> r, op |-> "Describe", pc |-> "idle",
                    x |-> NoFile, ret |-> Ok(Nil), sent |-> DescribeUnchecked(proc[r]),
                    logged |-> 0, acquired |-> FALSE,
                    cached |-> DOMAIN proc[r].descriptions, todo |-> <<>>,
                    lookup |-> NoLookup]]
    /\ ncalls' = ncalls + 1
    /\ UNCHANGED <<dnsVars, crashed, procfs, proc>>

\* the file of reader r is put right: a missing file appears, a malformed
\* one is written again
FileChange(r) ==
    /\ ~crashed
    /\ procfs[r] # GoodFiles[r]
    /\ procfs' = [procfs EXCEPT ![r] = GoodFiles[r]]
    /\ UNCHANGED <<dnsVars, crashed, proc, call, ncalls>>

(***************************************************************************)
(* ProcNetStatReader.ReadMetrics alone, over the files of StatFiles.       *)
(***************************************************************************)
StatReadMetricsCall == ProcReadMetrics("scrape1", "connTrackReader")

InitStat ==
    /\ wire = [err |-> Nil, res |-> Msg(QueryMsg.Question, GoodAnswers)]
    /\ DnsInit
    /\ crashed = FALSE
    /\ procfs \in {[GoodFiles EXCEPT !["connTrackReader"] = f] : f \in StatFiles(MaxRows)}
    /\ ProcInit

SpecStat == InitStat /\ [][StatReadMetricsCall]_vars

(***************************************************************************)
(* ProcNetDevReader.ReadMetrics alone, over the files of DevFiles.         *)
(***************************************************************************)
DevReadMetricsCall == ProcReadMetrics("scrape1", "netDevReader")

InitDev ==
    /\ wire = [err |-> Nil, res |-> Msg(QueryMsg.Question, GoodAnswers)]
    /\ DnsInit
    /\ crashed = FALSE
    /\ procfs \in {[GoodFiles EXCEPT !["netDevReader"] = f] : f \in DevFiles(MaxRows)}
    /\ ProcInit

SpecDev == InitDev /\ [][DevReadMetricsCall]_vars

(***************************************************************************)
(* ProcNetStatReader.ReadMetrics called by two goroutines, over the files  *)
(* of StatFiles.                                                           *)
(***************************************************************************)
StatReadTwiceNext == \E c \in Callers : ProcReadMetrics(c, "connTrackReader")

SpecStatTwice == InitStat /\ [][StatReadTwiceNext]_vars

(***************************************************************************)
(* ProcNetStatReader.Collect by one goroutine, over the files of           *)
(* StatFiles.                                                              *)
(***************************************************************************)
StatCollectNext ==
    \/ ProcCollectRead("scrape1", "connTrackReader")
    \/ ProcCollectLock("scrape1")
    \/ ProcCollectEmit("scrape1")

SpecStatCollect == InitStat /\ [][StatCollectNext]_vars

(***************************************************************************)
(* A process being scraped: concurrent Collect and Describe calls on the   *)
(* three proc readers and on the DnsmasqReader.                            *)
(***************************************************************************)
\* the files at the start: all good, or one of them not
ScrapeFiles ==
    {GoodFiles}
    \cup UNION {{[GoodFiles EXCEPT ![r] = f] : f \in ProcFiles(r)} : r \in ProcReaders}

\* what the daemon returns during the scrapes: the tests' success case, or a
\* third answer that is no number
ScrapeWires ==
    { [err |-> Nil, res |-> Msg(QueryMsg.Question, GoodAnswers)],
      [err |-> Nil,
       res |-> Msg(QueryMsg.Question,
                   [GoodAnswers EXCEPT ![3] = TXT(QueryMsg.Question[3].Name,
                                                  <<<<"f", "a", "i", "l">>>>)])] }

ScrapeNext ==
    \/ \E c \in Callers, r \in ProcReaders : ProcCollectRead(c, r)
    \/ \E c \in Callers : ProcCollectLock(c)
    \/ \E c \in Callers : ProcCollectEmit(c)
    \/ \E c \in Callers, r \in ProcReaders : ProcDescribe(c, r)
    \/ \E r \in ProcReaders : FileChange(r)
    \/ DnsCollect
    \/ DnsDescribe

InitScrape ==
    /\ wire \in ScrapeWires
    /\ DnsInit
    /\ crashed = FALSE
    /\ procfs \in ScrapeFiles
    /\ ProcInit

SpecScrape == InitScrape /\ [][ScrapeNext]_vars

(***************************************************************************)
(* Concurrent Collect calls on the proc readers with the loop under the    *)
(* lock taken apart into its steps: the range over the result begins, the  *)
(* descriptor of the next name is looked up, it is created and stored if   *)
(* it was missing and the metric is sent, the deferred Unlock runs.        *)
(***************************************************************************)
\* for ... range: the order in which the loop will visit the result
ProcCollectRange(c) ==
    /\ ~crashed
    /\ call[c].pc = "emit"
    /\ \E items \in CollectItems(proc[call[c].reader], call[c].ret) :
          call' = [call EXCEPT ![c].pc = "lookup", ![c].todo = items]
    /\ UNCHANGED <<dnsVars, crashed, procfs, proc, ncalls>>

\* desc, ok := p.descriptions[name]
ProcCollectLookup(c) ==
    /\ ~crashed
    /\ call[c].pc = "lookup"
    /\ call[c].todo # <<>>
    /\ \E name \in {Head(call[c].todo).name} :
       \E ds \in {proc[call[c].reader].descriptions} :
          call' = [call EXCEPT ![c].pc = "send",
                               ![c].lookup = IF name \in DOMAIN ds
                                             THEN [ok |-> TRUE, desc |-> ds[name]]
                                             ELSE NoLookup]
    /\ UNCHANGED <<dnsVars, crashed, procfs, proc, ncalls>>

ProcCollectSendShared(c) ==
    /\ ~crashed
    /\ call[c].pc = "send"
    /\ \E r \in {call[c].reader} :
       \E it \in {Head(call[c].todo)} :
       \E desc \in {IF call[c].lookup.ok THEN call[c].lookup.desc
                     ELSE NewDesc(it.name, <<"generated from %s", proc[r].path>>,
                                  VariableLabels(proc[r]), proc[r].allocated + 1)} :
       \E m \in {MustNewConstMetric(desc, it.promType, Float64(it.val), it.labelValues)} :
          /\ proc' = [q \in ProcReaders |->
                         [proc[q] EXCEPT
                             !.descriptions = IF call[c].lookup.ok THEN @
                                              ELSE MapPut(@, it.name, desc),
                             !.allocated = IF q # r \/ call[c].lookup.ok THEN @ ELSE @ + 1,
                             !.lock = IF q = r /\ m.panic THEN Nil ELSE @]]
          /\ call' = [call EXCEPT
                         ![c].pc = IF m.panic THEN "panic" ELSE "lookup",
                         ![c].sent = IF m.panic THEN @ ELSE Append(@, m),
                         ![c].todo = IF m.panic THEN @ ELSE Tail(@)]
          /\ crashed' = m.panic
    /\ UNCHANGED <<dnsVars, procfs, ncalls>>

ProcCollectSendUnlocks(c) ==
    /\ ~crashed
    /\ call[c].pc = "send"
    /\ \E r \in {call[c].reader} :
       \E it \in {Head(call[c].todo)} :
       \E desc \in {IF call[c].lookup.ok THEN call[c].lookup.desc
                     ELSE NewDesc(it.name, <<"generated from %s", proc[r].path>>,
                                  VariableLabels(proc[r]), proc[r].allocated + 1)} :
       \E m \in {MustNewConstMetric(desc, it.promType, Float64(it.val), it.labelValues)} :
          /\ proc' = [proc EXCEPT
                         ![r].descriptions = IF call[c].lookup.ok THEN @
                                             ELSE MapPut(@, it.name, desc),
                         ![r].allocated = IF call[c].lookup.ok THEN @ ELSE @ + 1,
                         ![r].lock = Nil]
          /\ call' = [call EXCEPT
                         ![c].pc = IF m.panic THEN "panic" ELSE "lookup",
                         ![c].sent = IF m.panic THEN @ ELSE Append(@, m),
                         ![c].todo = IF m.panic THEN @ ELSE Tail(@)]
          /\ crashed' = m.panic
    /\ UNCHANGED <<dnsVars, procfs, ncalls>>

\* if !ok { desc = NewDesc(...); p.descriptions[name] = desc }; ch <- metric
ProcCollectSend(c) ==
    /\ ~crashed
    /\ call[c].pc = "send"
    /\ \E r \in {call[c].reader} :
       \E it \in {Head(call[c].todo)} :
       \E desc \in {IF call[c].lookup.ok THEN call[c].lookup.desc
                     ELSE NewDesc(it.name, <<"generated from %s", proc[r].path>>,
                                  VariableLabels(proc[r]), proc[r].allocated + 1)} :
       \E m \in {MustNewConstMetric(desc, it.promType, Float64(it.val), it.labelValues)} :
          /\ proc' = [proc EXCEPT
                         ![r].descriptions = IF call[c].lookup.ok THEN @
                                             ELSE MapPut(@, it.name, desc),
                         ![r].allocated = IF call[c].lookup.ok THEN @ ELSE @ + 1,
                         ![r].lock = IF m.panic THEN Nil ELSE @]
          /\ call' = [call EXCEPT
                         ![c].pc = IF m.panic THEN "panic" ELSE "lookup",
                         ![c].sent = IF m.panic THEN @ ELSE Append(@, m),
                         ![c].todo = IF m.panic THEN @ ELSE Tail(@)]
          /\ crashed' = m.panic
    /\ UNCHANGED <<dnsVars, procfs, ncalls>>

ProcCollectReturnLocked(c) ==
    /\ ~crashed
    /\ call[c].pc = "lookup"
    /\ call[c].todo = <<>>
    /\ call' = [call EXCEPT ![c].pc = "idle"]
    /\ UNCHANGED <<dnsVars, crashed, procfs, proc, ncalls>>

\* the loop is over: the deferred p.lock.Unlock(), and Collect returns
ProcCollectUnlock(c) ==
    /\ ~crashed
    /\ call[c].pc = "lookup"
    /\ call[c].todo = <<>>
    /\ proc' = [proc EXCEPT ![call[c].reader].lock = Nil]
    /\ call' = [call EXCEPT ![c].pc = "idle"]
    /\ UNCHANGED <<dnsVars, crashed, procfs, ncalls>>

RaceNext ==
    \/ \E c \in Callers, r \in ProcReaders : ProcCollectRead(c, r)
    \/ \E c \in Callers : ProcCollectLock(c)
    \/ \E c \in Callers : ProcCollectRange(c)
    \/ \E c \in Callers : ProcCollectLookup(c)
    \/ \E c \in Callers : ProcCollectSend(c)
    \/ \E c \in Callers : ProcCollectUnlock(c)

InitRace ==
    /\ wire = [err |-> Nil, res |-> Msg(QueryMsg.Question, GoodAnswers)]
    /\ DnsInit
    /\ crashed = FALSE
    /\ procfs \in ScrapeFiles
    /\ ProcInit

SpecRace == InitRace /\ [][RaceNext]_vars

(***************************************************************************)
(* The concurrent Collect calls as they are scheduled: a goroutine that    *)
(* can take its next step inside Collect takes it in the end (the consumer *)
(* of the channel receives what is sent), and a goroutine waiting in       *)
(* p.lock.Lock() gets the lock in the end when it is free again and again  *)
(* (sync.Mutex hands a starving waiter the lock).  The files are such      *)
(* that the read returns, a value or an error.                             *)
(***************************************************************************)
\* the readers that are called: the two ProcNetStatReader instances
LiveReaders == {"connTrackReader", "arpCacheReader"}

\* their files: those of GoodFiles, or one of the two missing
ReadableFiles ==
    {GoodFiles} \cup {[GoodFiles EXCEPT ![r] = NoFile] : r \in LiveReaders}

InitLive ==
    /\ wire = [err |-> Nil, res |-> Msg(QueryMsg.Question, GoodAnswers)]
    /\ DnsInit
    /\ crashed = FALSE
    /\ procfs \in ReadableFiles
    /\ ProcInit

\* the next step of goroutine c under the lock
ProcCollectStep(c) ==
    \/ ProcCollectRange(c)
    \/ ProcCollectLookup(c)
    \/ ProcCollectSend(c)
    \/ ProcCollectUnlock(c)

LiveFairness ==
    \A c \in Callers :
        /\ SF_vars(ProcCollectLock(c))
        /\ WF_vars(ProcCollectStep(c))

LiveNext ==
    \/ \E c \in Callers, r \in LiveReaders : ProcCollectRead(c, r)
    \/ \E c \in Callers : ProcCollectLock(c)
    \/ \E c \in Callers : ProcCollectRange(c)
    \/ \E c \in Callers : ProcCollectLookup(c)
    \/ \E c \in Callers : ProcCollectSend(c)
    \/ \E c \in Callers : ProcCollectUnlock(c)

SpecLive == InitLive /\ [][LiveNext]_vars /\ LiveFairness

(***************************************************************************)
(* ReadMetrics called again and again, directly and by Collect, on the     *)
(* DnsmasqReader and on the ProcNetDevReader, while the response of the    *)
(* daemon and the file stay as they are.                                   *)
(***************************************************************************)
\* the responses of a scrape, and no response
ReadWires == ScrapeWires \cup {[err |-> "i/o timeout", res |-> NilMsg]}

ReadsNext ==
    \/ DnsReadMetrics
    \/ DnsCollect
    \/ \E c \in Callers : ProcReadMetrics(c, "netDevReader")
    \/ \E c \in Callers : ProcCollectRead(c, "netDevReader")
    \/ \E c \in Callers : ProcCollectLock(c)
    \/ \E c \in Callers : ProcCollectEmit(c)

InitReads ==
    /\ wire \in ReadWires
    /\ DnsInit
    /\ crashed = FALSE
    /\ procfs \in {[GoodFiles EXCEPT !["netDevReader"] = f] : f \in NetDevFiles}
    /\ ProcInit

SpecReads == InitReads /\ [][ReadsNext]_vars

(***************************************************************************)
(* Reference notions the claims are stated with: what a decimal string     *)
(* denotes, read off the digits and not through ParseUint.                 *)
(***************************************************************************)
IsDecimal(s) == s # <<>> /\ \A i \in 1..Len(s) : s[i] \in Range(Digits)

RECURSIVE StripZeros(_)
StripZeros(s) == IF Len(s) > 1 /\ s[1] = "0" THEN StripZeros(Tail(s)) ELSE s

\* s <= t for two digit strings of the same length
RECURSIVE DigitsLeq(_, _)
DigitsLeq(s, t) ==
    IF s = <<>> THEN TRUE
    ELSE IF s[1] # t[1] THEN IndexOf(Digits, s[1]) < IndexOf(Digits, t[1])
    ELSE DigitsLeq(Tail(s), Tail(t))

\* a decimal string whose value is a uint64
IsUint64Decimal(s) ==
    /\ IsDecimal(s)
    /\ LET t == StripZeros(s) IN
       Len(t) < Len(MaxDec) \/ (Len(t) = Len(MaxDec) /\ DigitsLeq(t, MaxDec))

\* n \div 10 and n % 10 on uint64
DivMod10(n) ==
    LET t4 == n[4]
        t3 == (t4 % 10) * LimbBase + n[3]
        t2 == (t3 % 10) * LimbBase + n[2]
        t1 == (t2 % 10) * LimbBase + n[1]
    IN  [quot |-> <<t1 \div 10, t2 \div 10, t3 \div 10, t4 \div 10>>, rem |-> t1 % 10]

RECURSIVE formatDigits(_)
formatDigits(n) ==
    IF n = Zero64 THEN <<>>
    ELSE LET dm == DivMod10(n) IN formatDigits(dm.quot) \o <<Digits[dm.rem + 1]>>

\* the decimal digits of a uint64, without leading zeros
FormatUint(n) == IF n = Zero64 THEN <<"0">> ELSE formatDigits(n)

\* the positions of the spaces of s
SpacesOf(s) == {i \in 1..Len(s) : s[i] = " "}

Min(S) == CHOOSE m \in S : \A k \in S : m <= k
Max(S) == CHOOSE m \in S : \A k \in S : m >= k

\* the three fields of an "<address> <queries_sent> <query_errors>" string
TripleOf(s) ==
    LET sp == SpacesOf(s) IN
    [address |-> SubSeq(s, 1, Min(sp) - 1),
     sent |-> SubSeq(s, Min(sp) + 1, Max(sp) - 1),
     errors |-> SubSeq(s, Max(sp) + 1, Len(s))]

IsTriple(s) ==
    /\ Cardinality(SpacesOf(s)) = 2
    /\ IsUint64Decimal(TripleOf(s).sent)
    /\ IsUint64Decimal(TripleOf(s).errors)

IsTxt(a) == a.rrtype = TypeTXT

\* a scalar answer that carries an unsigned decimal string
GoodScalar(a) == IsTxt(a) /\ a.Txt # <<>> /\ IsUint64Decimal(a.Txt[1])

\* a scalar answer that carries a string that is no number
NonNumericScalar(a) == IsTxt(a) /\ a.Txt # <<>> /\ ~IsDecimal(a.Txt[1])

\* a server-list answer of k well-formed triples, k >= 0
GoodServers(a) == IsTxt(a) /\ \A j \in 1..Len(a.Txt) : IsTriple(a.Txt[j])

\* a server-list answer with a malformed triple
MalformedServers(a) == IsTxt(a) /\ \E j \in 1..Len(a.Txt) : ~IsTriple(a.Txt[j])

\* the transport answered, with n echoed questions and m answers
Answered(x, n, m) ==
    x.err = Nil /\ ~x.res.isNil /\ Len(x.res.Question) = n /\ Len(x.res.Answer) = m

\* a call of ReadMetrics has returned, directly or inside Collect
HasRead == dnsCall.op \in {"ReadMetrics", "Collect"}

\* the six scalar fields of a result, in answer order
ScalarsOf(res) == <<res.CacheSize, res.CacheInsertions, res.CacheEvictions,
                    res.CacheMisses, res.CacheHits, res.Authoritative>>

(***************************************************************************)
(* C1.  A response with 7 echoed questions and 7 answers, answers 1-6      *)
(* each carrying an unsigned decimal string (of a 64-bit value) and answer *)
(* 7 carrying k well-formed triples: ReadMetrics returns no error, the six *)
(* scalar fields are the decimal values of answers 1-6 in order, and       *)
(* Servers has k entries, entry i with the address and the two counts of   *)
(* the i-th string.                                                        *)
(***************************************************************************)
C1_WellFormed(x) ==
    /\ Answered(x, 7, 7)
    /\ \A i \in 1..6 : GoodScalar(x.res.Answer[i])
    /\ GoodServers(x.res.Answer[7])

C1_ReadMetricsParsesWellFormed ==
    (HasRead /\ C1_WellFormed(dnsCall.x)) =>
        /\ dnsCall.ret.kind = "ok"
        /\ \A i \in 1..6 :
              FormatUint(ScalarsOf(dnsCall.ret.val)[i]) = StripZeros(dnsCall.x.res.Answer[i].Txt[1])
        /\ LET txt == dnsCall.x.res.Answer[7].Txt
               servers == dnsCall.ret.val.Servers
           IN  /\ Len(servers) = Len(txt)
               /\ \A j \in 1..Len(txt) :
                     /\ servers[j].Address = TripleOf(txt[j]).address
                     /\ FormatUint(servers[j].QueriesSent) = StripZeros(TripleOf(txt[j]).sent)
                     /\ FormatUint(servers[j].QueryErrors) = StripZeros(TripleOf(txt[j]).errors)

C1_Witness ==
    /\ dnsCall.op = "ReadMetrics"
    /\ C1_WellFormed(dnsCall.x)
    /\ dnsCall.ret.kind = "ok"
    /\ Len(dnsCall.ret.val.Servers) = 2
    /\ dnsCall.ret.val.CacheHits = Max64
    /\ dnsCall.ret.val.CacheSize = U64(1000)

(***************************************************************************)
(* C2.  A response with 7 echoed questions and fewer or more than 7        *)
(* answers makes ReadMetrics fail with ErrNumAnswers and return no result, *)
(* also when the answers that are present are well-formed; a result is     *)
(* returned only when the echoed question count and the answer count are   *)
(* both 7.                                                                 *)
(***************************************************************************)
C2_AnswerCountMismatch ==
    /\ (HasRead /\ dnsCall.x.err = Nil /\ ~dnsCall.x.res.isNil
          /\ Len(dnsCall.x.res.Question) = 7 /\ Len(dnsCall.x.res.Answer) # 7) =>
            /\ dnsCall.ret.kind = "err"
            /\ dnsCall.ret.err.is = ErrNumAnswers
    /\ (HasRead /\ dnsCall.ret.kind = "ok") => Answered(dnsCall.x, 7, 7)

\* eight answers, the first seven of them well-formed
C2_Witness ==
    /\ dnsCall.op = "ReadMetrics"
    /\ Answered(dnsCall.x, 7, 8)
    /\ \A i \in 1..6 : GoodScalar(dnsCall.x.res.Answer[i])
    /\ GoodServers(dnsCall.x.res.Answer[7])
    /\ dnsCall.ret.kind = "err"
    /\ dnsCall.ret.err.is = ErrNumAnswers

(***************************************************************************)
(* C3.  A 7-answer response in which exactly one answer is bad (a string   *)
(* that is no number in one of answers 1-6, or a malformed triple in       *)
(* answer 7) and the others are well-formed makes ReadMetrics fail with    *)
(* ErrParseAnswer, the error names the field of the bad answer, and no     *)
(* result is returned.                                                     *)
(***************************************************************************)
C3_FieldNames == <<"cache size", "cache insertions", "cache evictions",
                   "cache misses", "cache hits", "authoritative", "servers">>

C3_OnlyBad(x, i) ==
    /\ Answered(x, 7, 7)
    /\ IF i <= 6 THEN NonNumericScalar(x.res.Answer[i]) ELSE MalformedServers(x.res.Answer[7])
    /\ \A j \in (1..6) \ {i} : GoodScalar(x.res.Answer[j])
    /\ i # 7 => GoodServers(x.res.Answer[7])

C3_OneBadAnswerFailsWithField ==
    \A i \in 1..7 :
        (HasRead /\ C3_OnlyBad(dnsCall.x, i)) =>
            /\ dnsCall.ret.kind = "err"
            /\ dnsCall.ret.err.is = ErrParseAnswer
            /\ dnsCall.ret.err.field = C3_FieldNames[i]

C3_Witness ==
    /\ dnsCall.op = "ReadMetrics"
    /\ C3_OnlyBad(dnsCall.x, 4)
    /\ dnsCall.ret.kind = "err"
    /\ dnsCall.ret.err.field = "cache misses"

(***************************************************************************)
(* C4.  When the transport's Exchange returns an error, ReadMetrics        *)
(* returns no result and the error is ErrUpstream carrying the transport   *)
(* error; the response is not looked at (no count check, no parsing).      *)
(***************************************************************************)
C4_TransportErrorIsUpstream ==
    (HasRead /\ dnsCall.x.err # Nil) =>
        /\ dnsCall.ret.kind = "err"
        /\ dnsCall.ret.err.is = ErrUpstream
        /\ dnsCall.ret.err.cause = dnsCall.x.err
        /\ ~crashed

C4_Witness ==
    /\ dnsCall.op = "ReadMetrics"
    /\ dnsCall.x.err = "dns client error"
    /\ dnsCall.x.res.isNil
    /\ dnsCall.ret.kind = "err"

(***************************************************************************)
(* C5.  Collect never crashes: for every response with 7 questions and 7   *)
(* answers, also one with an answer whose string list is empty or whose    *)
(* record is not a TXT record, Collect returns normally, having either     *)
(* sent metrics or logged one line and sent nothing.                       *)
(***************************************************************************)
C5_CollectNeverCrashes ==
    (dnsCall.op = "Collect" /\ Answered(dnsCall.x, 7, 7)) =>
        /\ ~crashed
        /\ dnsCall.ret.kind # "panic"
        /\ \/ dnsCall.sent # <<>> /\ dnsCall.logged = 0
           \/ dnsCall.sent = <<>> /\ dnsCall.logged = 1

(***************************************************************************)
(* C6.  Collect of the two proc readers never crashes, whatever the file   *)
(* holds: also for a data line with fewer value tokens than header fields  *)
(* and for a blank data line the read completes or fails with an error and *)
(* Collect returns; no out-of-range access ends the call in a panic.       *)
(***************************************************************************)
C6_ProcCollectNeverCrashes ==
    \A c \in Callers :
        call[c].op = "Collect" =>
            /\ call[c].pc # "panic"
            /\ call[c].ret.kind # "panic"

(***************************************************************************)
(* C7.  A Collect whose read returns an error sends nothing, logs one      *)
(* line and returns, for each of the three readers; that of a proc reader  *)
(* does not acquire the lock and leaves lock and descriptor cache of every *)
(* reader as they were, and leaves the other goroutines' calls where they  *)
(* were, so that later calls proceed as if it had not been made.           *)
(***************************************************************************)
\* this step is the start of a Collect by goroutine c whose read fails
C7_ProcCollectFails(c) ==
    /\ call'[c].seq # call[c].seq
    /\ call'[c].op = "Collect"
    /\ call'[c].ret.kind = "err"

\* this step is a Collect on the DnsmasqReader whose read fails
C7_DnsCollectFails ==
    /\ ncalls' # ncalls
    /\ \A c \in Callers : call'[c].seq = call[c].seq
    /\ dnsCall'.op = "Collect"
    /\ dnsCall'.ret.kind = "err"

\* locks, descriptor caches and the calls of the goroutines in cs are as before
C7_Unaffected(cs) ==
    /\ \A r \in ProcReaders :
          /\ proc'[r].lock = proc[r].lock
          /\ DOMAIN proc'[r].descriptions = DOMAIN proc[r].descriptions
          /\ proc'[r].allocated = proc[r].allocated
    /\ \A d \in cs : call'[d].pc = call[d].pc /\ call'[d].seq = call[d].seq
    /\ dns' = dns

C7_FailedReadCollectsNothing ==
    [][ /\ \A c \in Callers :
              C7_ProcCollectFails(c) =>
                  /\ call'[c].pc = "idle"
                  /\ call'[c].sent = <<>>
                  /\ call'[c].logged = 1
                  /\ ~call'[c].acquired
                  /\ ~crashed'
                  /\ C7_Unaffected(Callers \ {c})
        /\ C7_DnsCollectFails =>
              /\ dnsCall'.sent = <<>>
              /\ dnsCall'.logged = 1
              /\ ~crashed'
              /\ C7_Unaffected(Callers) ]_vars

\* a failed Collect on the DnsmasqReader (two answers parsed before the one
\* that did not) and a failed Collect on a proc reader have returned
C7_Witness ==
    /\ dnsCall.op = "Collect"
    /\ dnsCall.ret.kind = "err"
    /\ dnsCall.ret.err.field = "cache evictions"
    /\ dnsCall.sent = <<>>
    /\ \E c \in Callers :
          /\ call[c].op = "Collect"
          /\ call[c].ret.kind = "err"
          /\ call[c].pc = "idle"
          /\ call[c].logged = 1
    /\ ~crashed

(***************************************************************************)
(* C8.  After a successful read returning n servers Collect sends exactly  *)
(* 6 + 2n metrics: the six scalars in order, each with its own static      *)
(* descriptor, Counter type and the daemon address as the one label value, *)
(* then for each server in result order one upstream-queries and one       *)
(* upstream-errors metric labelled (daemon address, server address).       *)
(***************************************************************************)
C8_ScalarNames == <<"roger_dns_cache_size", "roger_dns_cache_insertions",
                    "roger_dns_cache_evictions", "roger_dns_cache_misses",
                    "roger_dns_cache_hits", "roger_dns_authoritative">>

\* a metric of descriptor name, Counter type, these labels and value v
\* (the value compared where float64 holds it exactly)
C8_IsMetric(m, name, labels, v) ==
    /\ m.desc \in Range(DescribeDescs(dns))
    /\ m.desc.fqName = name
    /\ m.valueType = CounterValue
    /\ m.labelValues = labels
    /\ v[4] < 2 ^ 5 => m.value = [mant |-> v, exp |-> 0]

C8_CollectSendsAllMetrics ==
    (dnsCall.op = "Collect" /\ dnsCall.ret.kind = "ok") =>
        LET res == dnsCall.ret.val
            n == Len(res.Servers)
            sent == dnsCall.sent
        IN  /\ Len(sent) = 6 + 2 * n
            /\ \A i \in 1..6 :
                  C8_IsMetric(sent[i], C8_ScalarNames[i], <<dns.address>>, ScalarsOf(res)[i])
            /\ \A j \in 1..n :
                  /\ C8_IsMetric(sent[6 + 2 * j - 1], "roger_dns_upstream_queries",
                                 <<dns.address, res.Servers[j].Address>>, res.Servers[j].QueriesSent)
                  /\ C8_IsMetric(sent[6 + 2 * j], "roger_dns_upstream_errors",
                                 <<dns.address, res.Servers[j].Address>>, res.Servers[j].QueryErrors)

C8_Witness ==
    /\ dnsCall.op = "Collect"
    /\ dnsCall.ret.kind = "ok"
    /\ Len(dnsCall.ret.val.Servers) = 2
    /\ Len(dnsCall.sent) = 10
    /\ ~crashed

(***************************************************************************)
(* C9.  Describe of the DnsmasqReader sends the same eight descriptors on  *)
(* every call, and every metric its Collect sends uses one of them;        *)
(* Describe of a proc reader sends no descriptor, before and after any     *)
(* number of Collect calls.                                                *)
(***************************************************************************)
\* the names of the eight, in the order of their allocation
C9_Eight == <<"roger_dns_cache_size", "roger_dns_cache_insertions",
              "roger_dns_cache_evictions", "roger_dns_cache_misses",
              "roger_dns_cache_hits", "roger_dns_authoritative",
              "roger_dns_upstream_queries", "roger_dns_upstream_errors">>

\* the k-th descriptor allocated when the reader was made
C9_IsEighth(desc, k) == desc.fqName = C9_Eight[k] /\ desc.id = k

C9_DescribeIsStatic ==
    /\ dnsCall.op = "Describe" =>
          /\ Len(dnsCall.sent) = 8
          /\ \A k \in 1..8 : C9_IsEighth(dnsCall.sent[k], k)
    /\ dnsCall.op = "Collect" =>
          \A i \in DOMAIN dnsCall.sent : \E k \in 1..8 : C9_IsEighth(dnsCall.sent[i].desc, k)
    /\ \A c \in Callers : call[c].op = "Describe" => call[c].sent = <<>>

\* a proc reader that has descriptors cached was asked to describe
C9_Witness ==
    \E c \in Callers :
        /\ call[c].op = "Describe"
        /\ call[c].sent = <<>>
        /\ DOMAIN proc[call[c].reader].descriptions # {}
        /\ call[c].seq = 2

(***************************************************************************)
(* C10.  ReadMetrics of a ProcNetStatReader on a file with a header line   *)
(* and one or more CPU rows whose values all parse: the result has one     *)
(* value for each field; that of a field other than entries is the sum     *)
(* (in 64 bits) of the field's column over all rows; that of entries is    *)
(* not a sum but one of the values the rows report, and so v when every    *)
(* row reports v.                                                          *)
(***************************************************************************)
C10_Entries == <<"e", "n", "t", "r", "i", "e", "s">>

HexDigits == <<"0", "1", "2", "3", "4", "5", "6", "7", "8", "9", "a", "b", "c", "d", "e", "f">>

IsHex(s) == s # <<>> /\ \A i \in 1..Len(s) : lower(s[i]) \in Range(HexDigits)

\* a hexadecimal string whose value is a uint64
IsUint64Hex(s) == IsHex(s) /\ Len(StripZeros(s)) <= 16

\* the value of such a string: four hexadecimal digits to a limb
HexVal(s) ==
    LET t == StripZeros(s)
        d(k) == IF k <= Len(t) THEN IndexOf(HexDigits, lower(t[Len(t) - k + 1])) - 1 ELSE 0
    IN  [j \in 1..4 |-> d(4 * j - 3) + 16 * d(4 * j - 2) + 256 * d(4 * j - 1) + 4096 * d(4 * j)]

\* the field names of a file, and the tokens of its rows
C10_Fields(f) == LET h == Fields(f.lines[1]) IN [k \in DOMAIN h |-> ToLower(h[k])]

C10_Rows(f) == [n \in 1..(Len(f.lines) - 1) |-> Fields(f.lines[n + 1])]

C10_AllParse(f) ==
    /\ f.err = Nil
    /\ Len(f.lines) >= 2
    /\ C10_Fields(f) # <<>>
    /\ \A n \in DOMAIN C10_Rows(f) :
          /\ Len(C10_Rows(f)[n]) >= Len(C10_Fields(f))
          /\ \A k \in DOMAIN C10_Fields(f) : IsUint64Hex(C10_Rows(f)[n][k])

\* the sum in 64 bits of a sequence of uint64
RECURSIVE Sum64(_)
Sum64(vs) == IF vs = <<>> THEN Zero64 ELSE Add64(Head(vs), Sum64(Tail(vs))).val

\* the values the rows report for field h, row after row
C10_Column(f, h) ==
    LET cols == {k \in DOMAIN C10_Fields(f) : C10_Fields(f)[k] = h}
        cell(n, k) == IF k \in cols THEN <<HexVal(C10_Rows(f)[n][k])>> ELSE <<>>
    IN  Concat([n \in DOMAIN C10_Rows(f) |->
                   Concat([k \in DOMAIN C10_Fields(f) |-> cell(n, k)])])

C10_Name(p, h) == Roger \o <<"_">> \o p.subsystem \o <<"_">> \o h

C10_SumsColumnsButEntries ==
    \A c \in Callers :
        (call[c].op = "ReadMetrics" /\ proc[call[c].reader].kind = "netstat"
            /\ C10_AllParse(call[c].x)) =>
            /\ call[c].ret.kind = "ok"
            /\ LET f == call[c].x
                   p == proc[call[c].reader]
                   Values == call[c].ret.val.Values
               IN  \A h \in Range(C10_Fields(f)) :
                      /\ Cardinality({i \in DOMAIN Values : Values[i].name = C10_Name(p, h)}) = 1
                      /\ \A i \in DOMAIN Values :
                            Values[i].name = C10_Name(p, h) =>
                                IF h = C10_Entries
                                THEN Values[i].val \in Range(C10_Column(f, h))
                                ELSE Values[i].val = Sum64(C10_Column(f, h))

\* the rows 42 3 and 42 5 under entries found: entries 42 (hexadecimal),
\* found 8
C10_Witness ==
    \E c \in Callers :
        /\ call[c].op = "ReadMetrics"
        /\ C10_AllParse(call[c].x)
        /\ C10_Fields(call[c].x) = <<C10_Entries, found>>
        /\ Len(call[c].x.lines) = 3
        /\ call[c].ret.kind = "ok"
        /\ \E i, j \in DOMAIN call[c].ret.val.Values :
              /\ call[c].ret.val.Values[i].name = C10_Name(proc[call[c].reader], C10_Entries)
              /\ call[c].ret.val.Values[i].val = U64(66)
              /\ call[c].ret.val.Values[j].name = C10_Name(proc[call[c].reader], found)
              /\ call[c].ret.val.Values[j].val = U64(8)

(***************************************************************************)
(* C11.  Every ValueDesc that ReadMetrics of a ProcNetStatReader produces  *)
(* is a Gauge if and only if its lower-cased header is entries, and a      *)
(* Counter otherwise, whatever the values, the rows and the subsystem are; *)
(* Collect sends each value with the type of its ValueDesc.                *)
(***************************************************************************)
\* the lower-cased header a value name was built from
C11_HeaderOf(p, f, name) ==
    {h \in Range(C10_Fields(f)) : C10_Name(p, h) = name}

C11_KindFollowsName ==
    \A c \in Callers :
        (call[c].op = "Collect" /\ call[c].ret.kind = "ok") =>
            LET p == proc[call[c].reader]
                f == call[c].x
                Values == call[c].ret.val.Values
            IN  /\ \A i \in DOMAIN Values :
                      /\ C11_HeaderOf(p, f, Values[i].name) # {}
                      /\ \A h \in C11_HeaderOf(p, f, Values[i].name) :
                            Values[i].promType =
                                IF h = C10_Entries THEN GaugeValue ELSE CounterValue
                /\ call[c].pc = "idle" =>
                      /\ Len(call[c].sent) = Len(Values)
                      /\ \A i \in DOMAIN Values :
                            /\ call[c].sent[i].desc.fqName = Values[i].name
                            /\ call[c].sent[i].valueType = Values[i].promType

\* under the header Found ENTRIES a Collect has sent found as a Counter and
\* entries as a Gauge
C11_Witness ==
    \E c \in Callers :
        /\ call[c].op = "Collect"
        /\ call[c].pc = "idle"
        /\ call[c].ret.kind = "ok"
        /\ Fields(call[c].x.lines[1]) # C10_Fields(call[c].x)
        /\ \E i, j \in DOMAIN call[c].sent :
              /\ call[c].sent[i].desc.fqName = C10_Name(proc[call[c].reader], C10_Entries)
              /\ call[c].sent[i].valueType = GaugeValue
              /\ call[c].sent[j].desc.fqName = C10_Name(proc[call[c].reader], found)
              /\ call[c].sent[j].valueType = CounterValue

(***************************************************************************)
(* C12.  In ReadMetrics of a ProcNetStatReader a value token that is no    *)
(* base-16 uint64 is skipped for its field in its row only: the read       *)
(* succeeds, the result of a field is the aggregate (the 64-bit sum, for   *)
(* entries one of the values) of the tokens of its column that did parse,  *)
(* the other fields of the row included, and a field none of whose tokens  *)
(* parsed is absent from the result.                                       *)
(***************************************************************************)
\* a file with a header line whose rows have a token for every field
C12_NoShortRow(f) ==
    /\ f.err = Nil
    /\ Len(f.lines) >= 2
    /\ \A n \in DOMAIN C10_Rows(f) : Len(C10_Rows(f)[n]) >= Len(C10_Fields(f))

\* some token under a header is no base-16 uint64
C12_SomeTokenFails(f) ==
    \E n \in DOMAIN C10_Rows(f), k \in DOMAIN C10_Fields(f) : ~IsUint64Hex(C10_Rows(f)[n][k])

\* the values of the tokens for field h that parse, row after row
C12_Parsed(f, h) ==
    LET cell(n, k) == IF C10_Fields(f)[k] = h /\ IsUint64Hex(C10_Rows(f)[n][k])
                      THEN <<HexVal(C10_Rows(f)[n][k])>> ELSE <<>>
    IN  Concat([n \in DOMAIN C10_Rows(f) |->
                   Concat([k \in DOMAIN C10_Fields(f) |-> cell(n, k)])])

C12_SkipsUnparsedTokenOnly ==
    \A c \in Callers :
        (call[c].op = "ReadMetrics" /\ proc[call[c].reader].kind = "netstat"
            /\ C12_NoShortRow(call[c].x)) =>
            /\ call[c].ret.kind = "ok"
            /\ LET f == call[c].x
                   p == proc[call[c].reader]
                   Values == call[c].ret.val.Values
               IN  \A h \in Range(C10_Fields(f)) :
                      LET at == {i \in DOMAIN Values : Values[i].name = C10_Name(p, h)} IN
                      IF C12_Parsed(f, h) = <<>> THEN at = {}
                      ELSE /\ Cardinality(at) = 1
                           /\ \A i \in at :
                                 IF h = C10_Entries
                                 THEN Values[i].val \in Range(C12_Parsed(f, h))
                                 ELSE Values[i].val = Sum64(C12_Parsed(f, h))

\* entries found over the rows zz 5 and 3 3: entries 3, found 8; and a file
\* none of whose tokens for entries parses has no value for entries
C12_Witness ==
    \E c \in Callers :
        /\ call[c].op = "ReadMetrics"
        /\ C12_NoShortRow(call[c].x)
        /\ C12_SomeTokenFails(call[c].x)
        /\ call[c].ret.kind = "ok"
        /\ C10_Fields(call[c].x) = <<C10_Entries, found>>
        /\ Len(C12_Parsed(call[c].x, C10_Entries)) = 1
        /\ Len(C12_Parsed(call[c].x, found)) = 2
        /\ \E i, j \in DOMAIN call[c].ret.val.Values :
              /\ call[c].ret.val.Values[i].name = C10_Name(proc[call[c].reader], C10_Entries)
              /\ call[c].ret.val.Values[i].val = U64(3)
              /\ call[c].ret.val.Values[j].name = C10_Name(proc[call[c].reader], found)
              /\ call[c].ret.val.Values[j].val = U64(8)

(***************************************************************************)
(* C13.  ReadMetrics of a ProcNetDevReader on a file whose second line is  *)
(* label | rx names | tx names (the names of a direction differing from    *)
(* each other) and whose interface lines each hold the interface and       *)
(* exactly len(rx)+len(tx) decimal uint64 tokens: one result for each      *)
(* interface line in file order, named by the first token without its      *)
(* trailing colon, whose map has exactly len(rx)+len(tx) entries, the k-th *)
(* rx name under roger_net_rx_<lower-cased name> holding token k and the   *)
(* k-th tx name under roger_net_tx_<lower-cased name> holding token        *)
(* len(rx)+k.                                                              *)
(***************************************************************************)
\* the names of the two directions, as the second line gives them
C13_Rx(f) == Fields(Split(f.lines[2], "|")[2])

C13_Tx(f) == Fields(Split(f.lines[2], "|")[3])

\* the tokens of the n-th interface line
C13_Tokens(f, n) == Fields(f.lines[n + 2])

C13_Distinct(hs) == \A i, j \in DOMAIN hs : ToLower(hs[i]) = ToLower(hs[j]) => i = j

\* the second line has three segments
C13_ThreeSegments(f) ==
    /\ f.err = Nil
    /\ Len(f.lines) >= 2
    /\ Cardinality({i \in DOMAIN f.lines[2] : f.lines[2][i] = "|"}) = 2

C13_WellFormed(f) ==
    /\ C13_ThreeSegments(f)
    /\ C13_Distinct(C13_Rx(f))
    /\ C13_Distinct(C13_Tx(f))
    /\ \A n \in 1..(Len(f.lines) - 2) :
          /\ Len(C13_Tokens(f, n)) = 1 + Len(C13_Rx(f)) + Len(C13_Tx(f))
          /\ \A k \in 2..Len(C13_Tokens(f, n)) : IsUint64Decimal(C13_Tokens(f, n)[k])

\* a token without its trailing colon
C13_NoColon(t) == IF t # <<>> /\ t[Len(t)] = ":" THEN SubSeq(t, 1, Len(t) - 1) ELSE t

C13_RxName(h) == <<"r", "o", "g", "e", "r", "_", "n", "e", "t", "_", "r", "x", "_">> \o ToLower(h)

C13_TxName(h) == <<"r", "o", "g", "e", "r", "_", "n", "e", "t", "_", "t", "x", "_">> \o ToLower(h)

\* map m holds under name the value the decimal token denotes
C13_Holds(m, name, token) ==
    /\ name \in DOMAIN m
    /\ FormatUint(m[name]) = StripZeros(token)

C14_BadHeader(f) == f.err = Nil /\ ~C13_ThreeSegments(f)

C14_BadHeaderIsFormatError ==
    \A c \in Callers :
        (call[c].op = "ReadMetrics" /\ proc[call[c].reader].kind = "netdev"
            /\ C14_BadHeader(call[c].x)) =>
            /\ call[c].ret.kind = "err"
            /\ call[c].ret.err.msg = "unexpected header line format"
            /\ call[c].ret.err.line = (IF Len(call[c].x.lines) >= 2 THEN call[c].x.lines[2] ELSE <<>>)
            /\ call[c].pc = "idle"
            /\ ~crashed

\* a second line of four segments followed by an interface line was refused
C14_Witness ==
    \E c \in Callers :
        /\ call[c].op = "ReadMetrics"
        /\ call[c].reader = "netDevReader"
        /\ call[c].x.err = Nil
        /\ Len(call[c].x.lines) = 3
        /\ Cardinality({i \in DOMAIN call[c].x.lines[2] : call[c].x.lines[2][i] = "|"}) = 3
        /\ call[c].x.lines[3] # <<>>
        /\ call[c].ret.kind = "err"

(***************************************************************************)
(* C15.  In ReadMetrics of a ProcNetDevReader a value token that is no     *)
(* base-10 uint64 leaves only its own metric name out of the map of its    *)
(* interface: the read succeeds, there is a result for each interface      *)
(* line, and every name of either direction whose token parses is in the   *)
(* map of its line with the value of the token.                            *)
(***************************************************************************)
\* three segments, distinct names, and on every interface line the
\* interface and a token for each name
C15_NoShortLine(f) ==
    /\ C13_ThreeSegments(f)
    /\ C13_Distinct(C13_Rx(f))
    /\ C13_Distinct(C13_Tx(f))
    /\ \A n \in 1..(Len(f.lines) - 2) :
          Len(C13_Tokens(f, n)) >= 1 + Len(C13_Rx(f)) + Len(C13_Tx(f))

\* name is in map m with the token's value if the token parses, and is not
\* in m otherwise
C15_HoldsOrAbsent(m, name, token) ==
    IF IsUint64Decimal(token) THEN C13_Holds(m, name, token) ELSE name \notin DOMAIN m

C15_SkipsUnparsedFieldOnly ==
    \A c \in Callers :
        (call[c].op = "ReadMetrics" /\ proc[call[c].reader].kind = "netdev"
            /\ C15_NoShortLine(call[c].x)) =>
            /\ call[c].ret.kind = "ok"
            /\ LET f == call[c].x
                   res == call[c].ret.val
                   rx == C13_Rx(f)
                   tx == C13_Tx(f)
               IN  /\ Len(res) = Len(f.lines) - 2
                   /\ \A n \in DOMAIN res :
                         /\ res[n].InterfaceName = C13_NoColon(C13_Tokens(f, n)[1])
                         /\ DOMAIN res[n].MetricValues \subseteq
                                {C13_RxName(rx[k]) : k \in DOMAIN rx}
                                \cup {C13_TxName(tx[k]) : k \in DOMAIN tx}
                         /\ \A k \in DOMAIN rx :
                               C15_HoldsOrAbsent(res[n].MetricValues, C13_RxName(rx[k]),
                                                 C13_Tokens(f, n)[1 + k])
                         /\ \A k \in DOMAIN tx :
                               C15_HoldsOrAbsent(res[n].MetricValues, C13_TxName(tx[k]),
                                                 C13_Tokens(f, n)[1 + Len(rx) + k])

\* under bytes packets | Errs the line eth0: ff 20 20 lost rx bytes only,
\* and the line after it lost nothing
C15_Witness ==
    \E c \in Callers :
        /\ call[c].op = "ReadMetrics"
        /\ call[c].reader = "netDevReader"
        /\ C15_NoShortLine(call[c].x)
        /\ Len(C13_Rx(call[c].x)) = 2
        /\ call[c].ret.kind = "ok"
        /\ Len(call[c].ret.val) = 2
        /\ ~IsUint64Decimal(C13_Tokens(call[c].x, 1)[2])
        /\ DOMAIN call[c].ret.val[1].MetricValues = {C13_RxName(packets), C13_TxName(Errs)}
        /\ call[c].ret.val[1].MetricValues[C13_TxName(Errs)] = U64(20)
        /\ Cardinality(DOMAIN call[c].ret.val[2].MetricValues) = 3

(***************************************************************************)
(* C16.  ReadMetrics called twice on the DnsmasqReader with the same       *)
(* response of the daemon, or on the ProcNetDevReader with the file        *)
(* unchanged, returns equal results, whatever calls were made in between,  *)
(* and a read changes nothing of a reader: address or path, descriptors,   *)
(* descriptor cache.                                                       *)
(***************************************************************************)
\* the reads of the two goroutines on the same file of the same reader
\* returned the same
C16_SameProcReads ==
    \A c1, c2 \in Callers :
        (/\ call[c1].op = "ReadMetrics"
         /\ call[c2].op = "ReadMetrics"
         /\ call[c1].reader = call[c2].reader
         /\ call[c1].x = call[c2].x) =>
            /\ call[c1].ret.kind = call[c2].ret.kind
            /\ call[c1].ret = call[c2].ret

\* this step is a call on the DnsmasqReader, the call before it was one too,
\* and the response was the same: the reads of both returned the same
C16_SameDnsReads ==
    (/\ dnsCall.op \in {"ReadMetrics", "Collect"}
     /\ dnsCall'.op \in {"ReadMetrics", "Collect"}
     /\ dnsCall'.x = dnsCall.x) =>
        /\ dnsCall'.ret.kind = dnsCall.ret.kind
        /\ dnsCall'.ret = dnsCall.ret

\* this step is a direct read (of the DnsmasqReader, or by goroutine c)
C16_DnsReadStep == dnsCall'.op = "ReadMetrics" /\ dnsCall.op # "ReadMetrics"

C16_ProcReadStep(c) ==
    /\ call'[c].op = "ReadMetrics"
    /\ call[c].op # "ReadMetrics" \/ call[c].seq # call'[c].seq

C16_ReadsAreIdempotent ==
    /\ []C16_SameProcReads
    /\ [][ /\ C16_SameDnsReads
           /\ (C16_DnsReadStep \/ \E c \in Callers : C16_ProcReadStep(c)) =>
                 /\ dns' = dns
                 /\ proc' = proc ]_vars

\* a read of the device statistics before any Collect and one after two
\* Collect calls have filled the descriptor cache returned the same
\* interface result, and the DnsmasqReader has been read as well
C16_Witness ==
    /\ call["scrape1"].op = "ReadMetrics"
    /\ call["scrape1"].seq = 0
    /\ call["scrape2"].op = "ReadMetrics"
    /\ call["scrape2"].seq = 2
    /\ call["scrape1"].ret.kind = "ok"
    /\ call["scrape2"].ret.kind = "ok"
    /\ Len(call["scrape1"].ret.val) = 1
    /\ call["scrape2"].ret = call["scrape1"].ret
    /\ DOMAIN proc["netDevReader"].descriptions # {}
    /\ dnsCall.op = "ReadMetrics"
    /\ dnsCall.ret.kind = "ok"

(***************************************************************************)
(* C17.  ReadMetrics of a ProcNetStatReader called twice on an unchanged   *)
(* file returns bit-identical results: the two Values sequences hold the   *)
(* same ValueDesc elements in the same order.                              *)
(***************************************************************************)
C17_StatReadsAreIdentical ==
    \A c1, c2 \in Callers :
        (/\ call[c1].op = "ReadMetrics"
         /\ call[c2].op = "ReadMetrics"
         /\ call[c1].reader = call[c2].reader
         /\ proc[call[c1].reader].kind = "netstat"
         /\ call[c1].x = call[c2].x
         /\ call[c1].ret.kind = "ok"
         /\ call[c2].ret.kind = "ok") =>
            call[c1].ret.val.Values = call[c2].ret.val.Values

(***************************************************************************)
(* C18.  Over any sequence of Collect calls on a proc reader a metric name *)
(* that has a descriptor in the cache keeps that descriptor for ever (it   *)
(* is never removed and never replaced; the cache only grows), every       *)
(* observation sent for the name in any cycle carries that descriptor, and *)
(* a Collect sends observations for the names of its own read only, so a   *)
(* cached name that the read no longer has is not sent while its           *)
(* descriptor stays cached.                                                *)
(***************************************************************************)
\* the metric names of the read of a Collect that returned a result
C18_ReadNames(c) ==
    IF proc[call[c].reader].kind = "netdev"
    THEN UNION {DOMAIN call[c].ret.val[n].MetricValues : n \in DOMAIN call[c].ret.val}
    ELSE {call[c].ret.val.Values[i].name : i \in DOMAIN call[c].ret.val.Values}

C18_SentNames(c) == {call[c].sent[i].desc.fqName : i \in DOMAIN call[c].sent}

\* every metric goroutine c has sent carries the cached descriptor of its name
C18_SentWithCached(c) ==
    \A i \in DOMAIN call[c].sent :
        /\ call[c].sent[i].desc.fqName \in DOMAIN proc[call[c].reader].descriptions
        /\ call[c].sent[i].desc =
              proc[call[c].reader].descriptions[call[c].sent[i].desc.fqName]

C18_CacheKeeps ==
    \A r \in ProcReaders :
        \A name \in DOMAIN proc[r].descriptions :
            /\ name \in DOMAIN proc'[r].descriptions
            /\ proc'[r].descriptions[name] = proc[r].descriptions[name]

C18_DescriptorsAreStable ==
    /\ [](\A c \in Callers :
             call[c].op = "Collect" =>
                 /\ C18_SentWithCached(c)
                 /\ (call[c].pc = "idle" /\ call[c].ret.kind = "ok") =>
                        C18_SentNames(c) = C18_ReadNames(c))
    /\ [][C18_CacheKeeps]_vars

\* the second Collect on a reader has read fewer names than the first one
\* cached: it sent the names it read, with the descriptors of the first
\* cycle, and the name that is gone is still cached
C18_Witness ==
    \E c \in Callers :
        /\ call[c].op = "Collect"
        /\ call[c].seq = 2
        /\ call[c].pc = "idle"
        /\ call[c].ret.kind = "ok"
        /\ C18_SentNames(c) # {}
        /\ C18_SentNames(c) = C18_ReadNames(c)
        /\ C18_SentNames(c) # DOMAIN proc[call[c].reader].descriptions
        /\ \A i \in DOMAIN call[c].sent : call[c].sent[i].desc.id <= 3
        /\ proc[call[c].reader].allocated = 3

(***************************************************************************)
(* C19.  In every interleaving of concurrent Collect calls on one proc     *)
(* reader that each observe a metric name not seen before, exactly one     *)
(* descriptor is ever created and stored for the name, and all the calls   *)
(* send their observation for the name with that one descriptor.           *)
(***************************************************************************)
C19_OneDescriptorPerName ==
    /\ \A r \in ProcReaders :
          proc[r].allocated = Cardinality(DOMAIN proc[r].descriptions)
    /\ \A c1, c2 \in Callers :
          (/\ call[c1].op = "Collect"
           /\ call[c2].op = "Collect"
           /\ call[c1].reader = call[c2].reader) =>
              \A i \in DOMAIN call[c1].sent, j \in DOMAIN call[c2].sent :
                  call[c1].sent[i].desc.fqName = call[c2].sent[j].desc.fqName =>
                      /\ call[c1].sent[i].desc = call[c2].sent[j].desc
                      /\ call[c1].sent[i].desc =
                            proc[call[c1].reader].descriptions[call[c1].sent[i].desc.fqName]

\* two Collect calls on one reader began while nothing was cached, both have
\* sent two metrics, and two descriptors were created in all
C19_Witness ==
    /\ call["scrape1"].op = "Collect"
    /\ call["scrape2"].op = "Collect"
    /\ call["scrape1"].reader = call["scrape2"].reader
    /\ call["scrape1"].cached = {}
    /\ call["scrape2"].cached = {}
    /\ call["scrape1"].pc = "idle"
    /\ call["scrape2"].pc = "idle"
    /\ Len(call["scrape1"].sent) = 2
    /\ Len(call["scrape2"].sent) = 2
    /\ C18_SentNames("scrape1") = C18_SentNames("scrape2")
    /\ proc[call["scrape1"].reader].allocated = 2

(***************************************************************************)
(* C20.  ReadMetrics of the DnsmasqReader makes its checks in a fixed      *)
(* order and reports the first that fails only: the transport error, then  *)
(* an echoed question count other than 7 (ErrNumQuestions), then an answer *)
(* count other than the question count (ErrNumAnswers), then the answers   *)
(* 1 to 6 that fail to parse in the order of their positions, then the     *)
(* server list.  A wrong question count with a wrong answer count is       *)
(* ErrNumQuestions; answers 2 and 4 both no numbers is the failure of      *)
(* cache insertions.                                                       *)
(***************************************************************************)
\* answer i of the response is a TXT record that does not parse
C20_FailsToParse(x, i) ==
    IF i <= 6
    THEN /\ IsTxt(x.res.Answer[i])
         /\ x.res.Answer[i].Txt # <<>>
         /\ ~IsUint64Decimal(x.res.Answer[i].Txt[1])
    ELSE MalformedServers(x.res.Answer[7])

\* answer i of the response is well-formed
C20_Parses(x, i) ==
    IF i <= 6 THEN GoodScalar(x.res.Answer[i]) ELSE GoodServers(x.res.Answer[7])

\* the call failed with this sentinel
C20_FailedWith(sentinel) == dnsCall.ret.kind = "err" /\ dnsCall.ret.err.is = sentinel

C20_FirstFailureIsReported ==
    HasRead =>
        LET x == dnsCall.x IN
        IF x.err # Nil THEN C20_FailedWith(ErrUpstream)
        ELSE IF x.res.isNil THEN TRUE
        ELSE IF Len(x.res.Question) # 7 THEN C20_FailedWith(ErrNumQuestions)
        ELSE IF Len(x.res.Answer) # Len(x.res.Question) THEN C20_FailedWith(ErrNumAnswers)
        ELSE \A i \in 1..7 :
                ((\A j \in 1..(i - 1) : C20_Parses(x, j)) /\ C20_FailsToParse(x, i)) =>
                    /\ C20_FailedWith(ErrParseAnswer)
                    /\ dnsCall.ret.err.field = C3_FieldNames[i]

\* answers 2 and 4 are no numbers: the failure reported is that of answer 2
C20_Witness ==
    /\ dnsCall.op = "ReadMetrics"
    /\ Answered(dnsCall.x, 7, 7)
    /\ C20_FailsToParse(dnsCall.x, 2)
    /\ C20_FailsToParse(dnsCall.x, 4)
    /\ \A i \in {1, 3, 5, 6, 7} : C20_Parses(dnsCall.x, i)
    /\ dnsCall.ret.kind = "err"
    /\ dnsCall.ret.err.is = ErrParseAnswer
    /\ dnsCall.ret.err.field = "cache insertions"

(***************************************************************************)
(* C21.  In ReadMetrics of a ProcNetStatReader each CPU row's entries      *)
(* value overwrites the one recorded before: when the rows report          *)
(* different entries values, the value in the result is that of the last   *)
(* row in which it parsed, never the sum and not that of the first row.    *)
(***************************************************************************)
C21_EntriesIsLastRow ==
    \A c \in Callers :
        (call[c].op = "ReadMetrics" /\ proc[call[c].reader].kind = "netstat"
            /\ C12_NoShortRow(call[c].x) /\ call[c].ret.kind = "ok") =>
            LET f == call[c].x
                p == proc[call[c].reader]
                Values == call[c].ret.val.Values
                rows == C12_Parsed(f, C10_Entries)
            IN  rows # <<>> =>
                    \A i \in DOMAIN Values :
                        Values[i].name = C10_Name(p, C10_Entries) =>
                            Values[i].val = rows[Len(rows)]

(***************************************************************************)
(* C22.  ReadMetrics of the DnsmasqReader accepts only a response that     *)
(* includes the questions that were sent: a response whose question        *)
(* section does not contain the seven questions of the query (seven        *)
(* questions with other names, for one) is rejected with ErrNumQuestions   *)
(* and not parsed.                                                         *)
(***************************************************************************)
\* every question of the query is in the question section of the response
C22_EchoesSent(x) ==
    \A i \in DOMAIN QueryMsg.Question :
        \E j \in DOMAIN x.res.Question : x.res.Question[j] = QueryMsg.Question[i]

C22_OtherQuestionsAreRejected ==
    (HasRead /\ dnsCall.x.err = Nil /\ ~dnsCall.x.res.isNil /\ ~C22_EchoesSent(dnsCall.x)) =>
        C20_FailedWith(ErrNumQuestions)

(***************************************************************************)
(* C23.  A server-list answer of one or more strings in which the string   *)
(* at some position, whichever it is, is not three fields separated by     *)
(* single spaces or has a second or third field that is no unsigned        *)
(* decimal 64-bit number (the six scalar answers being well-formed):       *)
(* ReadMetrics fails with ErrParseAnswer for servers and returns no        *)
(* result, so the well-formed strings before or after the malformed one    *)
(* are not returned as a shorter server list, and a Collect sends nothing. *)
(***************************************************************************)
\* the strings of the server-list answer of a 7-answer response
C23_Strings(x) == x.res.Answer[7].Txt

\* the six scalar answers are well-formed and the seventh is a TXT record
C23_ReachesServers(x) ==
    /\ Answered(x, 7, 7)
    /\ \A i \in 1..6 : GoodScalar(x.res.Answer[i])
    /\ IsTxt(x.res.Answer[7])

C23_MalformedTripleFailsRead ==
    (HasRead /\ C23_ReachesServers(dnsCall.x)) =>
        \A j \in 1..Len(C23_Strings(dnsCall.x)) :
            ~IsTriple(C23_Strings(dnsCall.x)[j]) =>
                /\ dnsCall.ret.kind = "err"
                /\ dnsCall.ret.err.is = ErrParseAnswer
                /\ dnsCall.ret.err.field = ServersField
                /\ dnsCall.sent = <<>>
                /\ ~crashed

\* a Collect on a list whose first string is well-formed and whose second
\* is not has failed and sent nothing
C23_Witness ==
    /\ dnsCall.op = "Collect"
    /\ C23_ReachesServers(dnsCall.x)
    /\ Len(C23_Strings(dnsCall.x)) = 2
    /\ IsTriple(C23_Strings(dnsCall.x)[1])
    /\ ~IsTriple(C23_Strings(dnsCall.x)[2])
    /\ dnsCall.ret.kind = "err"
    /\ dnsCall.ret.err.is = ErrParseAnswer
    /\ dnsCall.sent = <<>>

(***************************************************************************)
(* C24.  On each proc reader at most one Collect call at a time is in its  *)
(* translate-and-emit phase: the lookup in the cache, the insert and the   *)
(* sending of every observation of a cycle happen while the call holds     *)
(* the lock of the instance, so that the observations of two concurrent    *)
(* cycles of one reader are never interleaved; the read-and-parse phase    *)
(* runs without the lock and may overlap with the loop of another call.    *)
(***************************************************************************)
\* the call of goroutine c is between p.lock.Lock() and the deferred Unlock
C24_InLoop(c) == call[c].op = "Collect" /\ call[c].pc \in {"emit", "lookup", "send"}

\* a call in the loop holds the lock, and no two calls on one reader are in it
C24_OneInLoop ==
    /\ \A c \in Callers : C24_InLoop(c) => proc[call[c].reader].lock = c
    /\ \A c1, c2 \in Callers :
          (c1 # c2 /\ C24_InLoop(c1) /\ C24_InLoop(c2)) => call[c1].reader # call[c2].reader

\* this step looks a descriptor up, or sends an observation, for goroutine c
C24_Looks(c) == call[c].pc = "lookup" /\ call'[c].pc = "send"

C24_Sends(c) == call'[c].seq = call[c].seq /\ Len(call'[c].sent) > Len(call[c].sent)

\* a lookup, an insert and a send are steps of the holder of the lock, made
\* while no other call on that reader has a cycle under way
C24_UnderLock ==
    /\ \A c \in Callers :
          (C24_Looks(c) \/ C24_Sends(c)) =>
              /\ proc[call[c].reader].lock = c
              /\ \A c2 \in Callers \ {c} :
                    call[c2].reader = call[c].reader => ~C24_InLoop(c2)
    /\ \A r \in ProcReaders :
          proc'[r].descriptions # proc[r].descriptions =>
              \E c \in Callers :
                  /\ proc[r].lock = c
                  /\ call[c].reader = r
                  /\ C24_Sends(c) \/ call'[c].pc = "panic"

C24_EmitPhaseIsExclusive == []C24_OneInLoop /\ [][C24_UnderLock]_vars

\* one call has sent the first of its two observations and holds the lock;
\* the other call on the same reader began after that, found the name
\* cached, has read and parsed, and waits for the lock
C24_Witness ==
    \E c1, c2 \in Callers :
        /\ c1 # c2
        /\ call[c1].reader = call[c2].reader
        /\ call[c1].pc = "lookup"
        /\ call[c1].cached = {}
        /\ Len(call[c1].sent) = 1
        /\ Len(call[c1].todo) = 1
        /\ proc[call[c1].reader].lock = c1
        /\ call[c2].op = "Collect"
        /\ call[c2].pc = "lock"
        /\ call[c2].ret.kind = "ok"
        /\ call[c2].cached = {call[c1].sent[1].desc.fqName}

(***************************************************************************)
(* C25.  Each ReadMetrics of the DnsmasqReader, and so each Collect, makes *)
(* exactly one Exchange with the daemon; its message carries exactly seven *)
(* questions of type TXT and class CHAOS, for cachesize, insertions,       *)
(* evictions, misses, hits, auth and servers in this order, each name      *)
(* ending in .bind., and desires recursion; after a failure of any kind    *)
(* the read makes no second Exchange.                                      *)
(***************************************************************************)
C25_Names == <<"cachesize.bind.", "insertions.bind.", "evictions.bind.", "misses.bind.",
               "hits.bind.", "auth.bind.", "servers.bind.">>

\* the message of the claim
C25_IsQuery(m) ==
    /\ m.RecursionDesired
    /\ Len(m.Question) = 7
    /\ \A i \in 1..7 :
          /\ m.Question[i].Name = C25_Names[i]
          /\ m.Question[i].Qtype = "TXT"
          /\ m.Question[i].Qclass = "CHAOS"

C25_OneExchangePerRead ==
    /\ HasRead =>
          /\ Len(dnsCall.exchanges) = 1
          /\ C25_IsQuery(dnsCall.exchanges[1].m)
          /\ dnsCall.exchanges[1].address = dns.address
    /\ ~HasRead => dnsCall.exchanges = <<>>

\* a Collect whose read failed at the transport
C25_Witness ==
    /\ dnsCall.op = "Collect"
    /\ dnsCall.x.err # Nil
    /\ dnsCall.ret.kind = "err"
    /\ dnsCall.ret.err.is = ErrUpstream
    /\ dnsCall.logged = 1
    /\ Len(dnsCall.exchanges) = 1

(***************************************************************************)
(* C26.  ReadMetrics of the DnsmasqReader binds the answers to the         *)
(* statistics by position alone: answer i is read as the i-th statistic    *)
(* whatever name the answer record carries.  A 7-answer response in which  *)
(* two scalar answers have changed places is accepted without error, and   *)
(* the two fields of the result hold each other's values.                  *)
(***************************************************************************)
\* the answer of the response that carries the name of the k-th question
C26_AnswerNamed(x, k) ==
    x.res.Answer[CHOOSE n \in DOMAIN x.res.Answer :
                    x.res.Answer[n].Name = QueryMsg.Question[k].Name]

\* well-formed answers, those for the statistics i and j in each other's place
C26_Swapped(x, i, j) ==
    /\ i # j
    /\ C1_WellFormed(x)
    /\ \A k \in 1..7 :
          x.res.Answer[k].Name =
              QueryMsg.Question[IF k = i THEN j ELSE IF k = j THEN i ELSE k].Name

C26_AnswersBoundByPosition ==
    \A i, j \in 1..6 :
        (HasRead /\ C26_Swapped(dnsCall.x, i, j)) =>
            /\ dnsCall.ret.kind = "ok"
            /\ \A k \in 1..6 :
                  FormatUint(ScalarsOf(dnsCall.ret.val)[k]) =
                      StripZeros(C26_AnswerNamed(dnsCall.x,
                                     IF k = i THEN j ELSE IF k = j THEN i ELSE k).Txt[1])

\* the answers for cachesize (1000) and hits (1004) have changed places: the
\* read succeeds with a cache size of 1004 and 1000 cache hits
C26_Witness ==
    /\ HasRead
    /\ C26_Swapped(dnsCall.x, 1, 5)
    /\ dnsCall.x.res.Answer[1].Txt = <<Dec(1004)>>
    /\ dnsCall.ret.kind = "ok"
    /\ dnsCall.ret.val.CacheSize = U64(1004)
    /\ dnsCall.ret.val.CacheHits = U64(1000)
    /\ dnsCall.ret.val.CacheMisses = U64(1003)

(***************************************************************************)
(* C27.  The descriptor cache is private to a reader instance: a Collect   *)
(* call on one reader (the nf_conntrack ProcNetStatReader, say) never      *)
(* reads, inserts into or locks the cache of another instance (the         *)
(* arp_cache ProcNetStatReader, the ProcNetDevReader); the cache and the   *)
(* lock of the other instances are unchanged by it.                        *)
(***************************************************************************)
\* a step of the call of goroutine c leaves every reader but its own as it is
C27_OthersUnchanged ==
    \A c \in Callers :
        call'[c] # call[c] =>
            \A r \in ProcReaders \ {call'[c].reader} : proc'[r] = proc[r]

\* the descriptor found by a lookup is the one in the cache of the call's own
\* reader
C27_LooksInOwnCache ==
    \A c \in Callers :
        (call[c].pc = "send" /\ call[c].lookup.ok) =>
            LET ds == proc[call[c].reader].descriptions
                name == Head(call[c].todo).name
            IN  name \in DOMAIN ds /\ call[c].lookup.desc = ds[name]

\* what a Collect has sent carries descriptors of its own reader's cache, and
\* no other cache holds a descriptor of these names
C27_SentFromOwnCache ==
    \A c \in Callers :
        call[c].op = "Collect" =>
            \A i \in DOMAIN call[c].sent :
                LET name == call[c].sent[i].desc.fqName IN
                /\ name \in DOMAIN proc[call[c].reader].descriptions
                /\ call[c].sent[i].desc = proc[call[c].reader].descriptions[name]
                /\ \A r \in ProcReaders \ {call[c].reader} :
                      name \notin DOMAIN proc[r].descriptions

C27_CachesArePrivate ==
    /\ [](C27_LooksInOwnCache /\ C27_SentFromOwnCache)
    /\ [][C27_OthersUnchanged]_vars

\* a Collect on the nf_conntrack reader has returned and filled that cache,
\* another is about to insert into the arp_cache reader's under that
\* reader's lock; the ProcNetDevReader has an empty cache and a free lock
C27_Witness ==
    \E c1, c2 \in Callers :
        /\ call[c1].op = "Collect"
        /\ call[c1].reader = "connTrackReader"
        /\ call[c1].pc = "idle"
        /\ Len(call[c1].sent) = 2
        /\ DOMAIN proc["connTrackReader"].descriptions =
               {call[c1].sent[i].desc.fqName : i \in 1..2}
        /\ proc["connTrackReader"].lock = Nil
        /\ call[c2].op = "Collect"
        /\ call[c2].reader = "arpCacheReader"
        /\ call[c2].pc = "send"
        /\ ~call[c2].lookup.ok
        /\ proc["arpCacheReader"].lock = c2
        /\ DOMAIN proc["arpCacheReader"].descriptions = {}
        /\ DOMAIN proc["netDevReader"].descriptions = {}
        /\ proc["netDevReader"].lock = Nil

(***************************************************************************)
(* C28.  When the read of the source returns and the consumer of the       *)
(* channel receives in the end every observation sent, every Collect call  *)
(* on a proc reader returns in the end with the lock of the instance       *)
(* released, however many Collect calls run on that reader at once: no     *)
(* deadlock, no call starved for ever.  A Collect blocked in a send on a   *)
(* channel nobody drains keeps the lock, and every other Collect on that   *)
(* instance waits behind it.                                               *)
(***************************************************************************)
\* the Collect call of goroutine c has read its source and has not returned
C28_Running(c) == call[c].op = "Collect" /\ call[c].pc \in {"lock", "emit", "lookup", "send"}

\* goroutine c is not inside a call and holds the lock of no reader
C28_Returned(c) == call[c].pc = "idle" /\ \A r \in ProcReaders : proc[r].lock # c

C28_EveryCollectReturns == \A c \in Callers : C28_Running(c) ~> C28_Returned(c)

\* while the call of c stays blocked in its send it holds the lock, and no
\* call waiting for the lock of that reader gets past Lock
C28_WaitsBehindSend ==
    \A c \in Callers :
        (call[c].pc = "send" /\ call'[c].pc = "send" /\ call'[c].sent = call[c].sent) =>
            /\ proc[call[c].reader].lock = c
            /\ proc'[call[c].reader].lock = c
            /\ \A c2 \in Callers \ {c} :
                  (call[c2].reader = call[c].reader /\ call[c2].pc = "lock") =>
                      call'[c2].pc = "lock"

C28_CollectTerminates == C28_EveryCollectReturns /\ [][C28_WaitsBehindSend]_vars

\* two Collect calls on one reader that both began before any descriptor was
\* cached, so that one of them found the lock held, have both returned, each
\* having sent its observations, and the lock is free
C28_Witness ==
    \E c1, c2 \in Callers :
        /\ c1 # c2
        /\ call[c1].op = "Collect" /\ call[c2].op = "Collect"
        /\ call[c1].reader = call[c2].reader
        /\ call[c1].cached = {} /\ call[c2].cached = {}
        /\ call[c1].acquired /\ call[c2].acquired
        /\ C28_Returned(c1) /\ C28_Returned(c2)
        /\ Len(call[c1].sent) = 2 /\ Len(call[c2].sent) = 2
        /\ proc[call[c1].reader].lock = Nil

(***************************************************************************)
(* C29.  The Values that ReadMetrics of a ProcNetStatReader returns never  *)
(* hold two elements with the same metric name, whatever the file holds.   *)
(* When the header line lists a column name twice the columns are merged   *)
(* into one element, for a Counter field the sum over both columns and     *)
(* all rows, and so a Collect sends at most one observation for a name in  *)
(* a cycle.                                                                *)
(***************************************************************************)
\* no two elements of a sequence of values or metrics carry the same name
C29_NoNameTwice(names) == \A i, j \in DOMAIN names : names[i] = names[j] => i = j

\* the header line of the file lists some name more than once
C29_NameListedTwice(f) ==
    \E k1, k2 \in DOMAIN C10_Fields(f) : k1 # k2 /\ C10_Fields(f)[k1] = C10_Fields(f)[k2]

C29_OneValuePerName ==
    \A c \in Callers :
        (call[c].op = "Collect" /\ call[c].ret.kind = "ok") =>
            LET f == call[c].x
                p == proc[call[c].reader]
                Values == call[c].ret.val.Values
            IN  /\ C29_NoNameTwice([i \in DOMAIN Values |-> Values[i].name])
                /\ C29_NoNameTwice([i \in DOMAIN call[c].sent |-> call[c].sent[i].desc.fqName])
                /\ (call[c].pc = "lock" /\ C12_NoShortRow(f)) =>
                      \A h \in Range(C10_Fields(f)) \ {C10_Entries} :
                          \A column \in {C12_Parsed(f, h)} :
                              column # <<>> =>
                                  \E i \in DOMAIN Values :
                                      /\ Values[i].name = C10_Name(p, h)
                                      /\ Values[i].val = Sum64(column)

\* under the header found found two rows of tokens that all parse have given
\* one value, and the Collect has sent one metric
C29_Witness ==
    \E c \in Callers :
        /\ call[c].op = "Collect"
        /\ call[c].pc = "idle"
        /\ call[c].ret.kind = "ok"
        /\ C12_NoShortRow(call[c].x)
        /\ C29_NameListedTwice(call[c].x)
        /\ Len(C12_Parsed(call[c].x, found)) = 4
        /\ Len(call[c].ret.val.Values) = 1
        /\ Len(call[c].sent) = 1

(***************************************************************************)
(* C30.  The running total ReadMetrics of a ProcNetStatReader keeps for a  *)
(* field is an unsigned 64-bit sum that wraps: the value of a Counter      *)
(* field is the sum of the row values that parsed modulo 2^64, and when    *)
(* the true sum is greater than 2^64 - 1 there is no error, no saturation  *)
(* at 2^64 - 1 and no row left out.                                        *)
(***************************************************************************)
\* the sum of limb j over a sequence of uint64 values
RECURSIVE C30_LimbTotal(_, _)
C30_LimbTotal(vs, j) == IF vs = <<>> THEN 0 ELSE Head(vs)[j] + C30_LimbTotal(Tail(vs), j)

\* the true sum of the values, as five limbs: the fifth is what lies above
\* bit 63
C30_TrueSum(vs) ==
    LET t1 == C30_LimbTotal(vs, 1)
        t2 == C30_LimbTotal(vs, 2) + t1 \div LimbBase
        t3 == C30_LimbTotal(vs, 3) + t2 \div LimbBase
        t4 == C30_LimbTotal(vs, 4) + t3 \div LimbBase
    IN  <<t1 % LimbBase, t2 % LimbBase, t3 % LimbBase, t4 % LimbBase, t4 \div LimbBase>>

\* the true sum is greater than 2^64 - 1
C30_Exceeds(vs) == C30_TrueSum(vs)[5] > 0

\* the true sum modulo 2^64
C30_Mod64(vs) == SubSeq(C30_TrueSum(vs), 1, 4)

C30_TotalWraps ==
    \A c \in Callers :
        (call[c].op = "ReadMetrics" /\ proc[call[c].reader].kind = "netstat"
            /\ C12_NoShortRow(call[c].x)) =>
            /\ call[c].ret.kind = "ok"
            /\ LET f == call[c].x
                   p == proc[call[c].reader]
                   Values == call[c].ret.val.Values
               IN  \A h \in Range(C10_Fields(f)) \ {C10_Entries} :
                      \A column \in {C12_Parsed(f, h)} :
                          column # <<>> =>
                              \E i \in DOMAIN Values :
                                  /\ Values[i].name = C10_Name(p, h)
                                  /\ Values[i].promType = CounterValue
                                  /\ Values[i].val = C30_Mod64(column)

\* two rows report ffffffffffffffff for found: the read succeeds and found
\* is fffffffffffffffe
C30_Witness ==
    \E c \in Callers :
        /\ call[c].op = "ReadMetrics"
        /\ C12_NoShortRow(call[c].x)
        /\ call[c].ret.kind = "ok"
        /\ Len(C12_Parsed(call[c].x, found)) = 2
        /\ C30_Exceeds(C12_Parsed(call[c].x, found))
        /\ \E i \in DOMAIN call[c].ret.val.Values :
              /\ call[c].ret.val.Values[i].name = C10_Name(proc[call[c].reader], found)
              /\ call[c].ret.val.Values[i].val =
                     <<LimbBase - 2, LimbBase - 1, LimbBase - 1, LimbBase - 1>>

====
